---- MODULE Spec2Model ----
(***************************************************************************)
(* A model of the jnet packet codecs: byte buffers are sequences of bytes, *)
(* every parse / constructor / accessor is an operator computed the way    *)
(* the Rust code computes it, and every scenario is a small state machine  *)
(* that draws its inputs in Init and applies the operations step by step.  *)
(*                                                                         *)
(* Two things the Rust source leaves to the build are explicit here:       *)
(*   build = "debug"   : overflow checks and debug assertions are on, the  *)
(*                       UncheckedIndex helpers are checked slice indexing *)
(*   build = "release" : integer arithmetic wraps, the UncheckedIndex      *)
(*                       helpers are raw pointer arithmetic                *)
(* A read past the end of a buffer yields the bytes of the adjacent memory *)
(* (variable tail, drawn in Init) and is recorded in an oob flag.          *)
(***************************************************************************)
EXTENDS Integers, Sequences, FiniteSets, TLC

VARIABLES
    build,      \* "debug" or "release"
    pc,         \* position of the scenario
    bytes,      \* the buffer handed to parse
    tail,       \* memory that follows the buffer (read only by out-of-bounds reads)
    layer,      \* the codec whose parse was applied
    ret,        \* what parse returned
    acc,        \* what the accessors of the returned view did
    msg,        \* coap::Message under construction: buffer, marker, number, state
    hist,       \* the options and payload given to the CoAP builder so far
    src6,       \* IPv6 source address (pseudo-header / IPHC constructor input)
    dst6,       \* IPv6 destination address
    ctxt,       \* iphc::Context: link-layer source and destination
    packet      \* iphc::Packet built by the constructor

vars == <<build, pc, bytes, tail, layer, ret, acc, msg, hist, src6, dst6, ctxt, packet>>

Builds == {"debug", "release"}

(***************************************************************************)
(* Bytes, bit fields, memory                                               *)
(***************************************************************************)
Pow2(n) == 2 ^ n

\* macros.rs get!: ($byte >> OFFSET) & MASK, MASK = (1 << SIZE) - 1
get(byte, OFFSET, SIZE) == (byte \div Pow2(OFFSET)) % Pow2(SIZE)

\* macros.rs set!: clear the field, then or in (value & MASK) << OFFSET
set(byte, OFFSET, SIZE, value) ==
    (byte - get(byte, OFFSET, SIZE) * Pow2(OFFSET)) + (value % Pow2(SIZE)) * Pow2(OFFSET)

\* byteorder NetworkEndian::read_u16 / write_u16
read_u16(hi, lo) == hi * 256 + lo
high(x) == (x \div 256) % 256
low(x) == x % 256

\* The byte at 0-based index i of the memory that starts with buffer b and
\* continues with the adjacent memory t.
Mem(b, t, i) == IF i < Len(b) THEN b[i + 1] ELSE t[((i - Len(b)) % Len(t)) + 1]

RECURSIVE MemRange(_, _, _, _)
\* The n bytes of memory from 0-based index i on.
MemRange(b, t, i, n) == IF n = 0 THEN <<>> ELSE <<Mem(b, t, i)>> \o MemRange(b, t, i + 1, n - 1)

\* b[from..] and b[..to] with 0-based Rust ranges, in bounds
From(b, from) == SubSeq(b, from + 1, Len(b))
To(b, to) == SubSeq(b, 1, to)
Range(b, from, to) == SubSeq(b, from + 1, to)

Rep(n, x) == [i \in 1..n |-> x]

RECURSIVE SeqsUpTo(_, _)
\* All sequences over alphabet A of length 0..n
SeqsUpTo(A, n) ==
    IF n = 0 THEN {<<>>}
    ELSE LET shorter == SeqsUpTo(A, n - 1)
         IN shorter \cup {Append(s, a) : s \in {x \in shorter : Len(x) = n - 1}, a \in A}

(***************************************************************************)
(* What a parse returns.  status: "ok" (a view over buffer), "err" (the    *)
(* Err variant; returned says whether it carries the buffer), "panic",     *)
(* "hang".  payload / marker / number are the indices the view caches.     *)
(***************************************************************************)
NoRet == [status |-> "none", buffer |-> <<>>, returned |-> FALSE, oob |-> FALSE,
          payload |-> 0, marker |-> 0, number |-> 0]
Ok(b, oob) == [NoRet EXCEPT !.status = "ok", !.buffer = b, !.oob = oob]
ErrBuf(b, oob) == [NoRet EXCEPT !.status = "err", !.buffer = b, !.returned = TRUE, !.oob = oob]
ErrUnit == [NoRet EXCEPT !.status = "err"]
Panic(oob) == [NoRet EXCEPT !.status = "panic", !.oob = oob]

NoAcc == [status |-> "none", oob |-> FALSE, token |-> <<>>, options |-> <<>>, payload |-> <<>>,
          len |-> 0, source |-> <<>>, destination |-> <<>>]

(***************************************************************************)
(* CoAP (src/src/coap.rs)                                                  *)
(***************************************************************************)
COAP_HEADER_SIZE == 4
PAYLOAD_MARKER == 255
RESERVED == 15
OFFSET8 == 13
OFFSET16 == 269
DELTA8 == 13
DELTA16 == 14
LENGTH8 == 13
LENGTH16 == 14
NO_PAYLOAD == 0
U16_MAX == 65535

\* get!(head, delta), get!(head, length), get!(header[VER_T_TKL], tkl)
delta4(head) == get(head, 4, 4)
len4(head) == get(head, 0, 4)
get_token_length(b) == get(b[1], 0, 4)

\* One extended field of an option header as scan reads it: the nibble nib
\* announces nothing (value nib), one more byte (13) or two more bytes (14).
\* val is the mathematical value before any u16 wrap.
scan_ext(b, t, cursor, nib) ==
    IF nib = DELTA8 THEN
        IF cursor >= Len(b)
        THEN [err |-> TRUE, oob |-> FALSE, val |-> 0, cursor |-> cursor]
        ELSE [err |-> FALSE, oob |-> FALSE, val |-> b[cursor + 1] + OFFSET8, cursor |-> cursor + 1]
    ELSE IF nib = DELTA16 THEN
        IF Len(b) < cursor + 1
        THEN [err |-> TRUE, oob |-> FALSE, val |-> 0, cursor |-> cursor]
        ELSE [err |-> FALSE, oob |-> cursor + 2 > Len(b),
              val |-> read_u16(Mem(b, t, cursor), Mem(b, t, cursor + 1)) + OFFSET16,
              cursor |-> cursor + 2]
    ELSE IF nib = RESERVED THEN [err |-> TRUE, oob |-> FALSE, val |-> 0, cursor |-> cursor]
    ELSE [err |-> FALSE, oob |-> FALSE, val |-> nib, cursor |-> cursor]

NoMarker == -1
ScanRes(status, number, marker, oob) ==
    [status |-> status, number |-> number, marker |-> marker, oob |-> oob]

RECURSIVE scan_loop(_, _, _, _, _, _, _)
\* The loop of Message::parse::scan over the bytes b that follow the token.
scan_loop(b, t, bld, cursor, number, oob, fuel) ==
    IF fuel = 0 THEN ScanRes("hang", number, NoMarker, oob)
    ELSE IF cursor >= Len(b) THEN ScanRes("ok", number, NoMarker, oob)
    ELSE IF b[cursor + 1] = PAYLOAD_MARKER THEN ScanRes("ok", number, cursor, oob)
    ELSE
        LET head == b[cursor + 1]
            d == scan_ext(b, t, cursor + 1, delta4(head))
        IN  IF d.err THEN ScanRes("err", number, NoMarker, oob)
            ELSE IF bld = "debug" /\ number + d.val > U16_MAX
                 THEN ScanRes("panic", number, NoMarker, oob \/ d.oob)
            ELSE
                LET l == scan_ext(b, t, d.cursor, len4(head))
                IN  IF l.err THEN ScanRes("err", number, NoMarker, oob \/ d.oob)
                    ELSE IF bld = "debug" /\ l.cursor + l.val > U16_MAX
                         THEN ScanRes("panic", number, NoMarker, oob \/ d.oob \/ l.oob)
                    ELSE scan_loop(b, t, bld, (l.cursor + l.val) % (U16_MAX + 1),
                                   (number + d.val) % (U16_MAX + 1),
                                   oob \/ d.oob \/ l.oob, fuel - 1)

scan(b, t, bld) == scan_loop(b, t, bld, 0, 0, FALSE, 4 * (Len(b) + 1))

\* coap::Message::parse
coap_parse(b, t, bld) ==
    IF Len(b) < COAP_HEADER_SIZE THEN ErrBuf(b, FALSE)
    ELSE
        LET opts_start == COAP_HEADER_SIZE + get_token_length(b)
        IN  IF Len(b) < opts_start THEN ErrBuf(b, FALSE)
            ELSE
                LET s == scan(From(b, opts_start), t, bld)
                IN  IF s.status = "ok"
                    THEN [Ok(b, s.oob) EXCEPT
                            !.number = s.number,
                            !.marker = IF s.marker = NoMarker THEN NO_PAYLOAD ELSE s.marker]
                    ELSE IF s.status = "err" THEN ErrBuf(b, s.oob)
                    ELSE [Panic(s.oob) EXCEPT !.status = s.status]

\* The result of an accessor, or of one step of an iterator
AccOk(v) == [status |-> "ok", value |-> v]
\* An unchecked index outside its slice: checked indexing panics in a debug
\* build, a release build reads or forms a slice outside the buffer.
AccBad(bld) == [status |-> IF bld = "debug" THEN "panic" ELSE "oob", value |-> <<>>]
AccPanic == [status |-> "panic", value |-> <<>>]

\* coap::Message::token
coap_token(m) == AccOk(Range(m.buffer, COAP_HEADER_SIZE, COAP_HEADER_SIZE + get_token_length(m.buffer)))

\* coap::Message<_, Set>::payload
coap_payload(m, bld) ==
    IF m.marker = NO_PAYLOAD THEN AccOk(<<>>)
    ELSE IF m.marker + 1 > Len(m.buffer) THEN AccBad(bld)
    ELSE AccOk(From(m.buffer, m.marker + 1))

\* Number of extended bytes a nibble announces (PtrReader::read_u8 / read_u16)
ext_size(nib) == IF nib = DELTA8 THEN 1 ELSE IF nib = DELTA16 THEN 2 ELSE 0

\* Value of a delta / length field whose extended bytes start the slice r
ext_value(r, nib) ==
    IF nib = DELTA8 THEN r[1] + OFFSET8
    ELSE IF nib = DELTA16 THEN read_u16(r[1], r[2]) + OFFSET16
    ELSE nib

RECURSIVE options_iter(_, _, _, _)
\* Options::next applied until it returns None: p is the slice still to read,
\* number the number of the previous option, out the options yielded so far.
options_iter(p, bld, number, out) ==
    IF p = <<>> THEN AccOk(out)
    ELSE IF p[1] = PAYLOAD_MARKER THEN AccOk(out)
    ELSE
        LET d4 == delta4(p[1])
            l4 == len4(p[1])
            r0 == Tail(p)
        IN  IF bld = "debug" /\ (d4 = RESERVED \/ l4 = RESERVED) THEN AccPanic
            ELSE IF Len(r0) < ext_size(d4) THEN AccBad(bld)
            ELSE
                LET delta == ext_value(r0, d4)
                    r1 == From(r0, ext_size(d4))
                IN  IF bld = "debug" /\ number + delta > U16_MAX THEN AccPanic
                    ELSE IF Len(r1) < ext_size(l4) THEN AccBad(bld)
                    ELSE
                        LET len == ext_value(r1, l4)
                            r2 == From(r1, ext_size(l4))
                            nr == (number + delta) % (U16_MAX + 1)
                        IN  IF bld = "debug" /\ len > U16_MAX THEN AccPanic
                            ELSE IF Len(r2) < len % (U16_MAX + 1) THEN AccBad(bld)
                            ELSE options_iter(From(r2, len % (U16_MAX + 1)), bld, nr,
                                              Append(out, <<nr, To(r2, len % (U16_MAX + 1))>>))

\* coap::Message::options followed by the iteration of the returned Options
coap_options(m, bld) ==
    LET end == IF m.marker # NO_PAYLOAD THEN m.marker ELSE Len(m.buffer)
        start == COAP_HEADER_SIZE + get_token_length(m.buffer)
    IN  IF start > end \/ end > Len(m.buffer) THEN AccBad(bld)
        ELSE options_iter(Range(m.buffer, start, end), bld, 0, <<>>)

\* get_token, options() iterated, payload(), as the panic-never example calls them
coap_access(m, bld) ==
    LET tk == coap_token(m)
        pl == coap_payload(m, bld)
        op == coap_options(m, bld)
    IN  [status |-> IF "panic" \in {pl.status, op.status} THEN "panic"
                    ELSE IF "oob" \in {pl.status, op.status} THEN "oob" ELSE "ok",
         oob |-> "oob" \in {pl.status, op.status},
         token |-> tk.value, options |-> op.value, payload |-> pl.value,
         len |-> Len(m.buffer), source |-> <<>>, destination |-> <<>>]

(***************************************************************************)
(* CoAP builder: Message<B, Unset>                                         *)
(***************************************************************************)
NoMsg == [buffer |-> <<>>, marker |-> 0, number |-> 0, state |-> "none"]
PanicMsg == [NoMsg EXCEPT !.state = "panic"]

\* coap::Message::new
coap_new(buffer, token_length) ==
    IF token_length > 8 THEN PanicMsg
    ELSE IF Len(buffer) < COAP_HEADER_SIZE + token_length THEN PanicMsg
    ELSE [buffer |-> [buffer EXCEPT ![1] = set(set(@, 6, 2, 1), 0, 4, token_length)],
          marker |-> COAP_HEADER_SIZE + token_length,
          number |-> 0,
          state |-> "Unset"]

\* coap::Message::set_type / set_code / set_message_id
coap_set_type(m, ty) == [m EXCEPT !.buffer[1] = set(@, 4, 2, ty)]
coap_set_code(m, code) == [m EXCEPT !.buffer[2] = code]
coap_set_message_id(m, id) == [m EXCEPT !.buffer[3] = high(id), !.buffer[4] = low(id)]

\* add_option::nbytes
nbytes(x) == IF x < OFFSET8 THEN 0 ELSE IF x < OFFSET16 THEN 1 ELSE 2

\* The nibble and the extended bytes that encode x in an option header
nibble(x) == IF x < OFFSET8 THEN x ELSE IF x < OFFSET16 THEN DELTA8 ELSE DELTA16
ext_bytes(x) ==
    IF x < OFFSET8 THEN <<>>
    ELSE IF x < OFFSET16 THEN <<x - OFFSET8>>
    ELSE <<high(x - OFFSET16), low(x - OFFSET16)>>

\* buffer with the bytes s written at 0-based index at (in bounds)
Write(buffer, at, s) ==
    SubSeq(buffer, 1, at) \o s \o SubSeq(buffer, at + Len(s) + 1, Len(buffer))

\* add_option taking a smaller number for a repetition of the highest one
coap_add_option_unordered(m, nr, value) ==
    LET delta == IF nr < m.number THEN 0 ELSE nr - m.number
        len == Len(value)
        end == m.marker + 1 + nbytes(delta) + nbytes(len) + len
        head == set(set(0, 4, 4, nibble(delta)), 0, 4, nibble(len))
    IN  IF end > Len(m.buffer) \/ end > U16_MAX THEN PanicMsg
        ELSE [m EXCEPT
                !.number = IF nr < m.number THEN @ ELSE nr,
                !.marker = end,
                !.buffer = Write(m.buffer, m.marker,
                                 <<head>> \o ext_bytes(delta) \o ext_bytes(len) \o value)]

\* coap::Message::add_option.  len, sz and the marker are u16: a value longer
\* than U16_MAX fails the conversion, and a sum beyond U16_MAX panics in a
\* debug build and wraps in a release build, where the wrapped end lies
\* before the cursor and the final slice [cursor..end] panics.
coap_add_option(m, nr, value) ==
    IF nr < m.number THEN PanicMsg
    ELSE
        LET delta == nr - m.number
            len == Len(value)
            sz == 1 + nbytes(delta) + nbytes(len) + len
            start == m.marker
            end == m.marker + sz
            head == set(set(m.buffer[start + 1], 4, 4, nibble(delta)), 0, 4, nibble(len))
        IN  IF end > U16_MAX THEN PanicMsg
            ELSE IF start >= Len(m.buffer) THEN PanicMsg
            ELSE IF start + 1 + nbytes(delta) > Len(m.buffer) THEN PanicMsg
            ELSE IF start + 1 + nbytes(delta) + nbytes(len) > Len(m.buffer) THEN PanicMsg
            ELSE IF end > Len(m.buffer) THEN PanicMsg
            ELSE [m EXCEPT
                    !.number = nr,
                    !.marker = end,
                    !.buffer = Write(m.buffer, start,
                                     <<head>> \o ext_bytes(delta) \o ext_bytes(len) \o value)]

\* a clear_options that keeps the cached highest option number
coap_clear_options_keeping_number(m) ==
    [m EXCEPT !.marker = COAP_HEADER_SIZE + get_token_length(m.buffer)]

\* coap::Message::clear_options
coap_clear_options(m) ==
    [m EXCEPT !.number = 0, !.marker = COAP_HEADER_SIZE + get_token_length(m.buffer)]

\* Truncate::truncate for slices
truncate(buffer, len) == IF len < Len(buffer) THEN To(buffer, len) ELSE buffer

\* coap::Message::set_payload
coap_set_payload(m, data) ==
    IF data # <<>> THEN
        IF m.marker >= Len(m.buffer) THEN PanicMsg
        ELSE IF m.marker + 1 + Len(data) > Len(m.buffer) THEN PanicMsg
        ELSE [m EXCEPT
                !.buffer = truncate(Write(m.buffer, m.marker, <<PAYLOAD_MARKER>> \o data),
                                    m.marker + 1 + Len(data)),
                !.state = "Set"]
    ELSE [m EXCEPT !.buffer = truncate(m.buffer, m.marker), !.marker = NO_PAYLOAD, !.state = "Set"]

\* coap::Message::as_bytes
coap_as_bytes(m) == IF m.state = "Unset" THEN To(m.buffer, m.marker) ELSE m.buffer


(***************************************************************************)
(* Internet checksum (src/src/ipv4.rs)                                     *)
(***************************************************************************)
\* The accumulators are u32: a sum of fewer than 65537 16-bit words cannot
\* wrap, and every buffer of this model is far shorter than that.
\* UxxExt for u32
low16(x) == x % 65536
high16(x) == (x \div 65536) % 65536

RECURSIVE sum_chunks_exact(_)
\* for chunk in header.chunks_exact(2) { sum = sum.wrapping_add(read_u16(chunk)) }
sum_chunks_exact(s) ==
    IF Len(s) < 2 THEN 0
    ELSE read_u16(s[1], s[2]) + sum_chunks_exact(From(s, 2))

RECURSIVE fold(_)
\* loop { let carry = sum.high(); if carry == 0 { break } sum = low + carry }
fold(sum) == IF high16(sum) = 0 THEN sum ELSE fold(low16(sum) + high16(sum))

\* ipv4::compute_checksum: chunks(2) ends with a one-byte chunk when the
\* length is odd, and NetworkEndian::read_u16 panics on it unless skipped.
compute_checksum(header, cksum_pos) ==
    LET skip == cksum_pos \div 2
        last == (Len(header) - 1) \div 2
        zeroed == [i \in 1..Len(header) |->
                      IF (i - 1) \div 2 = skip THEN 0 ELSE header[i]]
    IN  IF Len(header) % 2 = 1 /\ last # skip
        THEN [panic |-> TRUE, value |-> 0]
        ELSE [panic |-> FALSE,
              value |-> 65535 - low16(fold(sum_chunks_exact(zeroed)))]

\* A verification that accepts every header (what parse would do without it)
verify_checksum_skipped(header, bld) == "true"

\* ipv4::verify_checksum: "true", "false" or "panic"
verify_checksum(header, bld) ==
    IF bld = "debug" /\ Len(header) % 2 # 0 THEN "panic"
    ELSE
        LET sum == sum_chunks_exact(header)
        IN  IF bld = "debug" /\ low16(sum) + high16(sum) > U16_MAX THEN "panic"
            ELSE IF (low16(sum) + high16(sum)) % (U16_MAX + 1) = 65535 THEN "true"
            ELSE "false"

(***************************************************************************)
(* Ethernet, ARP, UDP                                                      *)
(***************************************************************************)
ETHER_HEADER_SIZE == 14
ARP_HEADER_SIZE == 8
UDP_HEADER_SIZE == 8

\* ether::Frame::parse
ether_parse(b) == IF Len(b) < ETHER_HEADER_SIZE THEN ErrBuf(b, FALSE) ELSE Ok(b, FALSE)

\* arp::Packet::parse
arp_parse(b) ==
    IF Len(b) < ARP_HEADER_SIZE THEN ErrBuf(b, FALSE)
    ELSE
        LET hlen == b[5]
            plen == b[6]
            payload_len == 2 * (hlen + plen)
        IN  IF Len(b) < ARP_HEADER_SIZE + payload_len THEN ErrBuf(b, FALSE) ELSE Ok(b, FALSE)

\* udp::Packet::parse
udp_parse(b) ==
    IF Len(b) < UDP_HEADER_SIZE THEN ErrBuf(b, FALSE)
    ELSE
        LET len == read_u16(b[5], b[6])
        IN  IF len < UDP_HEADER_SIZE \/ len > Len(b) THEN ErrBuf(b, FALSE) ELSE Ok(b, FALSE)

(***************************************************************************)
(* IPv4 (src/src/ipv4.rs)                                                  *)
(***************************************************************************)
MIN_HEADER_SIZE == 20
IPV4_CHECKSUM == 10

ipv4_get_version(b) == get(b[1], 4, 4)
ipv4_get_ihl(b) == get(b[1], 0, 4)
ipv4_header_len(b) == (ipv4_get_ihl(b) * 4) % 256
ipv4_get_total_length(b) == read_u16(b[3], b[4])
ipv4_get_header_checksum(b) == read_u16(b[11], b[12])

\* ipv4::Packet::parse
ipv4_parse(b, t, bld) ==
    IF Len(b) < MIN_HEADER_SIZE THEN ErrBuf(b, FALSE)
    ELSE
        LET header_len == ipv4_header_len(b)
            total_len == ipv4_get_total_length(b)
            oob == header_len > Len(b)
        IN  IF header_len < MIN_HEADER_SIZE THEN ErrBuf(b, FALSE)
            ELSE IF total_len < header_len THEN ErrBuf(b, FALSE)
            ELSE IF ipv4_get_version(b) # 4 THEN ErrBuf(b, FALSE)
            ELSE IF bld = "debug" /\ oob THEN Panic(FALSE)
            ELSE
                LET v == verify_checksum(MemRange(b, t, 0, header_len), bld)
                IN  IF v = "panic" THEN Panic(oob)
                    ELSE IF v = "false" THEN ErrBuf(b, oob)
                    ELSE IF total_len < (IF Len(b) > U16_MAX THEN U16_MAX ELSE Len(b))
                         THEN Ok(truncate(b, total_len), oob)
                    ELSE Ok(b, oob)

\* ipv4::Packet::len
ipv4_len(b) == ipv4_get_total_length(b)

(***************************************************************************)
(* IPv6 (src/src/ipv6.rs)                                                  *)
(***************************************************************************)
IPV6_HEADER_SIZE == 40

\* ipv4::Protocol::is_ipv6_extension_header on Protocol::from(byte)
is_ipv6_extension_header(byte) == byte \in {0, 43, 44, 50, 51, 60, 135, 139, 140, 253, 254}

\* ipv6::Packet::parse: the Err variant is (), the buffer is dropped
ipv6_parse(b) ==
    IF Len(b) < IPV6_HEADER_SIZE THEN ErrUnit
    ELSE IF get(b[1], 4, 4) # 6 THEN ErrUnit
    ELSE IF is_ipv6_extension_header(b[7]) THEN ErrUnit
    ELSE Ok(b, FALSE)

(***************************************************************************)
(* ICMP and ICMPv6 (src/src/icmp.rs, src/src/icmpv6.rs)                    *)
(***************************************************************************)
ICMP_HEADER_SIZE == 8
ICMPV6_HEADER_SIZE == 4
ICMPV6_NEXT_HEADER == 58

\* icmp::Message::parse
icmp_parse(b, bld) ==
    IF Len(b) < ICMP_HEADER_SIZE THEN ErrBuf(b, FALSE)
    ELSE
        LET v == verify_checksum(b, bld)
        IN  IF v = "panic" THEN Panic(FALSE)
            ELSE IF v = "true" THEN Ok(b, FALSE)
            ELSE ErrBuf(b, FALSE)

\* icmp::Message::len
icmp_len(b) == Len(b) % (U16_MAX + 1)

\* icmpv6::Message::parse
icmpv6_parse(b) == IF Len(b) < ICMPV6_HEADER_SIZE THEN ErrBuf(b, FALSE) ELSE Ok(b, FALSE)

RECURSIVE sum_chunks(_, _)
\* the loop of icmpv6::Message::compute_checksum over chunks(2), chunk i first
sum_chunks(s, i) ==
    IF s = <<>> THEN 0
    ELSE IF Len(s) = 1 THEN (IF i = 1 THEN 0 ELSE s[1] * 256)
    ELSE (IF i = 1 THEN 0 ELSE read_u16(s[1], s[2])) + sum_chunks(From(s, 2), i + 1)

RECURSIVE fold_while(_)
\* while sum >> 16 != 0 { sum = (sum & 0xffff) + (sum >> 16) }
fold_while(sum) == IF sum \div 65536 = 0 THEN sum ELSE fold_while((sum % 65536) + (sum \div 65536))

\* icmpv6::Message::compute_checksum, the sum before the carry is folded
icmpv6_sum(b, src, dest) ==
    LET len == Len(b)
    IN  sum_chunks_exact(src) + sum_chunks_exact(dest)
        + (len \div 65536) + (len % 65536) + ICMPV6_NEXT_HEADER + sum_chunks(b, 0)

\* icmpv6::Message::compute_checksum
icmpv6_compute_checksum(b, src, dest) ==
    65535 - (fold_while(icmpv6_sum(b, src, dest)) % 65536)

icmpv6_get_checksum(b) == read_u16(b[3], b[4])

\* icmpv6::Message::verify_checksum
icmpv6_verify_checksum(b, src, dest) == icmpv6_compute_checksum(b, src, dest) = icmpv6_get_checksum(b)


(***************************************************************************)
(* IEEE 802.15.4 (src/src/ieee802154.rs)                                   *)
(***************************************************************************)
Beacon == 0
Data == 1
Acknowledgment == 2
MacCommand == 3
AddrModeNone == 0
AddrModeReserved == 1
AddrModeShort == 2
AddrModeExtended == 3

\* the match arms `AddrMode::None => 0, Short => 2, Extended => 8`
addr_mode_size(mode) == IF mode = AddrModeShort THEN 2 ELSE IF mode = AddrModeExtended THEN 8 ELSE 0

\* ieee802154::Frame::parse; payload is the index at which the payload starts
ieee802154_parse(b) ==
    IF Len(b) < 3 THEN ErrBuf(b, FALSE)
    ELSE
        LET ftype == get(b[1], 0, 3)
            dest_addr_mode == get(b[2], 2, 2)
            src_addr_mode == get(b[2], 6, 2)
            intra_pan == get(b[1], 6, 1)
            len == 3 + addr_mode_size(dest_addr_mode) + addr_mode_size(src_addr_mode)
                   + (IF dest_addr_mode # AddrModeNone THEN 2 ELSE 0)
                   + (IF src_addr_mode # AddrModeNone /\ intra_pan = 0 THEN 2 ELSE 0)
        IN  IF dest_addr_mode = AddrModeReserved THEN ErrBuf(b, FALSE)
            ELSE IF src_addr_mode = AddrModeReserved THEN ErrBuf(b, FALSE)
            ELSE IF /\ dest_addr_mode = AddrModeNone
                    /\ (ftype # Acknowledgment \/ ftype # Beacon)
                    /\ src_addr_mode = AddrModeNone
                 THEN ErrBuf(b, FALSE)
            ELSE IF /\ src_addr_mode = AddrModeNone
                    /\ ftype # Acknowledgment
                    /\ dest_addr_mode = AddrModeNone
                 THEN ErrBuf(b, FALSE)
            ELSE IF Len(b) < len THEN ErrBuf(b, FALSE)
            ELSE [Ok(b, FALSE) EXCEPT !.payload = len]

(***************************************************************************)
(* LOWPAN_IPHC (src/src/sixlowpan/iphc.rs)                                 *)
(***************************************************************************)
DISPATCH_VALUE == 3

get_dispatch(b) == get(b[1], 5, 3)
get_tf(b) == get(b[1], 3, 2)
get_nh(b) == get(b[1], 2, 1) # 0
get_hlim(b) == get(b[1], 0, 2)
get_cid(b) == get(b[2], 7, 1) # 0
get_sac(b) == get(b[2], 6, 1) # 0
get_sam(b) == get(b[2], 4, 2)
get_m(b) == get(b[2], 3, 1) # 0
get_dac(b) == get(b[2], 2, 1) # 0
get_dam(b) == get(b[2], 0, 2)

cid_size(b) == IF get_cid(b) THEN 1 ELSE 0
ip_fields_start(b) == 2 + cid_size(b)
tf_size(b) == CASE get_tf(b) = 0 -> 4 [] get_tf(b) = 1 -> 3 [] get_tf(b) = 2 -> 1 [] OTHER -> 0
nh_size(b) == IF get_nh(b) THEN 0 ELSE 1
hlim_size(b) == IF get_hlim(b) = 0 THEN 1 ELSE 0
src_addr_size(b) ==
    IF get_sac(b)
    THEN CASE get_sam(b) = 0 -> 0 [] get_sam(b) = 1 -> 8 [] get_sam(b) = 2 -> 2 [] OTHER -> 0
    ELSE CASE get_sam(b) = 0 -> 16 [] get_sam(b) = 1 -> 8 [] get_sam(b) = 2 -> 2 [] OTHER -> 0

\* dest_addr_size: [err, size]
dest_addr_size(b) ==
    LET dam == get_dam(b)
        R(n) == [err |-> FALSE, size |-> n]
        E == [err |-> TRUE, size |-> 0]
    IN  IF ~get_m(b) /\ ~get_dac(b)
        THEN (CASE dam = 0 -> R(16) [] dam = 1 -> R(8) [] dam = 2 -> R(2) [] OTHER -> R(0))
        ELSE IF ~get_m(b) /\ get_dac(b)
        THEN (CASE dam = 0 -> E [] dam = 1 -> R(8) [] dam = 2 -> R(2) [] OTHER -> R(0))
        ELSE IF get_m(b) /\ ~get_dac(b)
        THEN (CASE dam = 0 -> R(16) [] dam = 1 -> R(6) [] dam = 2 -> R(4) [] OTHER -> R(1))
        ELSE (CASE dam = 0 -> R(6) [] OTHER -> E)

\* iphc::Packet::parse; payload is the index at which the payload starts
iphc_parse(b) ==
    IF Len(b) < 2 THEN ErrBuf(b, FALSE)
    ELSE IF get_dispatch(b) # DISPATCH_VALUE THEN ErrBuf(b, FALSE)
    ELSE IF get_cid(b) \/ (get_sac(b) /\ get_sam(b) # 0) \/ get_dac(b) THEN ErrBuf(b, FALSE)
    ELSE IF dest_addr_size(b).err THEN ErrBuf(b, FALSE)
    ELSE
        LET len == 2 + cid_size(b) + tf_size(b) + nh_size(b) + hlim_size(b)
                   + src_addr_size(b) + dest_addr_size(b).size
        IN  IF Len(b) < len THEN ErrBuf(b, FALSE)
            ELSE [Ok(b, FALSE) EXCEPT !.payload = len]

(***************************************************************************)
(* LOWPAN_NHC UDP (src/src/sixlowpan/nhc.rs)                               *)
(***************************************************************************)
NHC_ID_VALUE == 30

get_c(b) == get(b[1], 2, 1) # 0
get_p(b) == get(b[1], 0, 2)
ports_size(b) == CASE get_p(b) = 0 -> 4 [] get_p(b) = 1 -> 3 [] get_p(b) = 2 -> 3 [] OTHER -> 1

\* nhc::UdpPacket::parse
nhc_parse(b) ==
    IF Len(b) < 1 THEN ErrBuf(b, FALSE)
    ELSE IF get(b[1], 3, 5) # NHC_ID_VALUE THEN ErrBuf(b, FALSE)
    ELSE
        LET start == 1 + (IF ~get_c(b) THEN 2 ELSE 0) + ports_size(b)
        IN  IF Len(b) < start THEN ErrBuf(b, FALSE)
            ELSE [Ok(b, FALSE) EXCEPT !.payload = start]


(***************************************************************************)
(* Values the scenarios leave untouched                                    *)
(***************************************************************************)
NoHist == [options |-> <<>>, payload |-> <<>>]
NoAddr == <<>>
NoLl == [kind |-> "None", bytes |-> <<>>]
NoCtxt == [source |-> NoLl, destination |-> NoLl]
NoPacket == [status |-> "none", buffer |-> <<>>, payload |-> 0]

\* Adjacent memory an out-of-bounds read can see
Tails == {<<0>>, <<255, 1>>}

(***************************************************************************)
(* LOWPAN_IPHC constructor and address accessors                           *)
(* A link-layer address is [kind: "None" | "Short" | "Extended", bytes:    *)
(* the address in network order]; an iphc::Addr is [kind: "Complete" |     *)
(* "Elided", addr].                                                        *)
(***************************************************************************)
LINK_LOCAL_PREFIX == <<254, 128, 0, 0, 0, 0, 0, 0>>

\* ipv6::Addr predicates
is_link_local(a) == To(a, 8) = LINK_LOCAL_PREFIX
is_multicast(a) == a[1] = 255
is_unspecified(a) == a = Rep(16, 0)

\* ieee802154::ExtendedAddr::eui_64: toggle the universal / local bit
eui_64(ea) == [ea EXCEPT ![1] = IF get(@, 1, 1) = 0 THEN @ + 2 ELSE @ - 2]

\* `has a short address been mapped into an EUI-64 address`
short_mapped(a) == Range(a, 8, 14) = <<0, 0, 0, 255, 254, 0>>

\* The address mode bits and inline bytes `new` picks for a link-local
\* unicast address a, given the link-layer address ll of the context
unicast_link_local(a, ll) ==
    IF short_mapped(a) THEN
        IF ll = [kind |-> "Short", bytes |-> From(a, 14)]
        THEN [mode |-> 3, inline |-> <<>>]
        ELSE [mode |-> 2, inline |-> From(a, 14)]
    ELSE
        IF ll.kind = "Extended" /\ eui_64(ll.bytes) = From(a, 8)
        THEN [mode |-> 3, inline |-> <<>>]
        ELSE [mode |-> 1, inline |-> From(a, 8)]

\* Source part of `new`: SAC, SAM and the inline bytes
new_source(src, ll) ==
    IF is_unspecified(src) THEN [sac |-> 1, mode |-> 0, inline |-> <<>>]
    ELSE IF is_link_local(src)
    THEN [sac |-> 0, mode |-> unicast_link_local(src, ll).mode,
          inline |-> unicast_link_local(src, ll).inline]
    ELSE [sac |-> 0, mode |-> 0, inline |-> src]

\* Destination part of `new`: M, DAM and the inline bytes
new_destination(dest, ll) ==
    IF is_multicast(dest) THEN
        IF dest[2] = 2 /\ Range(dest, 2, 15) = Rep(13, 0)
        THEN [m |-> 1, mode |-> 3, inline |-> <<dest[16]>>]
        ELSE IF Range(dest, 2, 13) = Rep(11, 0)
        THEN [m |-> 1, mode |-> 2, inline |-> <<dest[2]>> \o From(dest, 13)]
        ELSE IF Range(dest, 2, 11) = Rep(9, 0)
        THEN [m |-> 1, mode |-> 1, inline |-> <<dest[2]>> \o From(dest, 11)]
        ELSE [m |-> 1, mode |-> 3, inline |-> dest]
    ELSE IF is_link_local(dest)
    THEN [m |-> 0, mode |-> unicast_link_local(dest, ll).mode,
          inline |-> unicast_link_local(dest, ll).inline]
    ELSE [m |-> 0, mode |-> 0, inline |-> dest]

\* hlim bits for a hop limit
hlim_bits(hop_limit) ==
    IF hop_limit = 255 THEN 3 ELSE IF hop_limit = 64 THEN 2 ELSE IF hop_limit = 1 THEN 1 ELSE 0

\* iphc::Packet::new.  next_header is <<>> for None, <<nh>> for Some(nh).
\* idx only grows and every growth is followed by an assert or an indexed
\* write, so `new` panics exactly when the buffer is shorter than the final
\* idx (or src is multicast).
iphc_new(buffer, next_header, hop_limit, src, dest, c) ==
    IF Len(buffer) < 2 THEN [NoPacket EXCEPT !.status = "panic"]
    ELSE IF is_multicast(src) THEN [NoPacket EXCEPT !.status = "panic"]
    ELSE
        LET s == new_source(src, c.source)
            d == new_destination(dest, c.destination)
            hl == IF hlim_bits(hop_limit) = 0 THEN <<hop_limit>> ELSE <<>>
            iphc0 == set(set(120, 2, 1, IF next_header = <<>> THEN 1 ELSE 0),
                         0, 2, hlim_bits(hop_limit))
            iphc1 == set(set(set(set(0, 6, 1, s.sac), 4, 2, s.mode), 3, 1, d.m), 0, 2, d.mode)
            header == <<iphc0, iphc1>> \o next_header \o hl \o s.inline \o d.inline
        IN  IF Len(buffer) < Len(header) THEN [NoPacket EXCEPT !.status = "panic"]
            ELSE [status |-> "ok", buffer |-> Write(buffer, 0, header), payload |-> Len(header)]

\* fe80::/64 followed by the 8 bytes iid
link_local(iid) == LINK_LOCAL_PREFIX \o iid

\* the index at which the source address starts
source_start(b) == ip_fields_start(b) + tf_size(b) + nh_size(b) + hlim_size(b)

\* iphc::Packet::get_source
iphc_get_source(b) ==
    LET start == source_start(b)
        sam == get_sam(b)
        Complete(a) == [kind |-> "Complete", addr |-> a]
    IN  IF get_sac(b) THEN Complete(Rep(16, 0))
        ELSE IF sam = 0 THEN Complete(Range(b, start, start + 16))
        ELSE IF sam = 1 THEN Complete(link_local(Range(b, start, start + 8)))
        ELSE IF sam = 2
        THEN Complete(link_local(<<0, 0, 0, 255, 254, 0>> \o Range(b, start, start + 2)))
        ELSE [kind |-> "Elided", addr |-> <<>>]

\* iphc::Packet::get_destination
iphc_get_destination(b) ==
    LET start == source_start(b) + src_addr_size(b)
        dam == get_dam(b)
        Complete(a) == [kind |-> "Complete", addr |-> a]
    IN  IF ~get_m(b) THEN
            IF dam = 0 THEN Complete(Range(b, start, start + 16))
            ELSE IF dam = 1 THEN Complete(link_local(Range(b, start, start + 8)))
            ELSE IF dam = 2
            THEN Complete(link_local(<<0, 0, 0, 255, 254, 0>> \o Range(b, start, start + 2)))
            ELSE [kind |-> "Elided", addr |-> <<>>]
        ELSE
            IF dam = 0 THEN Complete(Range(b, start, start + 16))
            ELSE IF dam = 1
            THEN Complete(<<255, b[start + 1]>> \o Rep(9, 0) \o Range(b, start + 1, start + 6))
            ELSE IF dam = 2
            THEN Complete(<<255, b[start + 1]>> \o Rep(11, 0) \o Range(b, start + 1, start + 4))
            ELSE Complete(<<255, 2>> \o Rep(13, 0) \o <<b[start + 1]>>)

\* iphc::ElidedAddr::complete
complete(ll) ==
    IF ll.kind = "Short" THEN link_local(<<0, 0, 0, 255, 254, 0>> \o ll.bytes)
    ELSE link_local(eui_64(ll.bytes))

\* The IPv6 address an iphc::Addr stands for, an elided one completed with
\* the link-layer address ll (nothing to complete it with: <<>>)
reconstruct(a, ll) ==
    IF a.kind = "Complete" THEN a.addr
    ELSE IF ll.kind = "None" THEN <<>>
    ELSE complete(ll)


(***************************************************************************)
(* Scenario: build a CoAP message, parse its bytes, read the view          *)
(* (tests/roundtrip.rs, the examples of coap.rs)                           *)
(***************************************************************************)
MaxOptions == 2
SmallBuf == 8
LargeBuf == 24
ShortValueLen == 1
LongValueLen == 13

BuildBuffers == {Rep(SmallBuf, 0), Rep(LargeBuf, 0)}
TokenLengths == {0, 2, 9}
\* If-Match, Uri-Path, Size1 and an unassigned number that needs a 16-bit delta
OptionNumbers == {1, 11, 60, 300}
OptionValues == {<<>>, Rep(ShortValueLen, 7), Rep(LongValueLen, 7)}
Payloads == {<<>>, <<72>>, <<255, 2>>}

InitCoapBuild ==
    /\ build \in Builds
    /\ pc = "start"
    /\ bytes \in BuildBuffers
    /\ tail = <<0>>
    /\ layer = "coap"
    /\ ret = NoRet
    /\ acc = NoAcc
    /\ msg = NoMsg
    /\ hist = NoHist
    /\ src6 = NoAddr
    /\ dst6 = NoAddr
    /\ ctxt = NoCtxt
    /\ packet = NoPacket

\* pc after a builder operation that returned m
after(m, next) == IF m.state = "panic" THEN "panicked" ELSE next

CoapNew ==
    /\ pc = "start"
    /\ \E token_length \in TokenLengths :
          LET m == coap_new(bytes, token_length)
          IN  msg' = m /\ pc' = after(m, "unset")
    /\ UNCHANGED <<build, bytes, tail, layer, ret, acc, hist, src6, dst6, ctxt, packet>>

CoapSetType ==
    /\ pc = "unset"
    /\ msg' = coap_set_type(msg, 1)
    /\ UNCHANGED <<build, pc, bytes, tail, layer, ret, acc, hist, src6, dst6, ctxt, packet>>

CoapSetCode ==
    /\ pc = "unset"
    /\ msg' = coap_set_code(msg, 69)
    /\ UNCHANGED <<build, pc, bytes, tail, layer, ret, acc, hist, src6, dst6, ctxt, packet>>

CoapSetMessageId ==
    /\ pc = "unset"
    /\ msg' = coap_set_message_id(msg, 4660)
    /\ UNCHANGED <<build, pc, bytes, tail, layer, ret, acc, hist, src6, dst6, ctxt, packet>>

CoapAddOption ==
    /\ pc = "unset"
    /\ Len(hist.options) < MaxOptions
    /\ \E number \in OptionNumbers, value \in OptionValues :
          LET m == coap_add_option(msg, number, value)
          IN  /\ msg' = m
              /\ pc' = after(m, "unset")
              /\ hist' = [hist EXCEPT !.options = Append(@, <<number, value>>)]
    /\ UNCHANGED <<build, bytes, tail, layer, ret, acc, src6, dst6, ctxt, packet>>

CoapSetPayload ==
    /\ pc = "unset"
    /\ \E data \in Payloads :
          LET m == coap_set_payload(msg, data)
          IN  /\ msg' = m
              /\ pc' = after(m, "set")
              /\ hist' = [hist EXCEPT !.payload = data]
    /\ UNCHANGED <<build, bytes, tail, layer, ret, acc, src6, dst6, ctxt, packet>>

\* Message::parse(m.as_bytes())
CoapParseBuilt ==
    /\ pc = "set"
    /\ bytes' = coap_as_bytes(msg)
    /\ ret' = coap_parse(coap_as_bytes(msg), tail, build)
    /\ pc' = "parsed"
    /\ UNCHANGED <<build, tail, layer, acc, msg, hist, src6, dst6, ctxt, packet>>

\* token(), options() iterated to the end, payload() on the parsed view
CoapAccess ==
    /\ pc = "parsed"
    /\ ret.status = "ok"
    /\ acc' = coap_access(ret, build)
    /\ pc' = "accessed"
    /\ UNCHANGED <<build, bytes, tail, layer, ret, msg, hist, src6, dst6, ctxt, packet>>

NextCoapBuild ==
    \/ CoapNew
    \/ CoapSetType
    \/ CoapSetCode
    \/ CoapSetMessageId
    \/ CoapAddOption
    \/ CoapSetPayload
    \/ CoapParseBuilt
    \/ CoapAccess

SpecCoapBuild == InitCoapBuild /\ [][NextCoapBuild]_vars

\* C1: a message built with new, the header setters, add_option calls and
\* set_payload(p) parses successfully from its as_bytes(); the parsed view's
\* options are the (number, value) pairs given to add_option, in order, and
\* its payload() is p.
C1_BuildThenParseRoundTrips ==
    /\ (pc = "parsed" => ret.status = "ok")
    /\ (pc = "accessed" =>
            /\ acc.status = "ok"
            /\ acc.options = hist.options
            /\ acc.payload = hist.payload)


(***************************************************************************)
(* Scenario: hand a buffer to the parse of one layer, then ask the         *)
(* returned view for its length                                            *)
(***************************************************************************)
Layers == {"ether", "arp", "ipv4", "ipv6", "icmp", "icmpv6", "udp",
           "ieee802154", "iphc", "nhc", "coap"}

\* fe80::1 and ff02::1
LinkLocal1 == <<254, 128>> \o Rep(13, 0) \o <<1>>
AllNodes == <<255, 2>> \o Rep(13, 0) \o <<1>>

\* A 20-byte IPv4 header (IHL may announce more) carrying UDP
Ipv4Header(ihl, total_len, id, cksum) ==
    <<64 + ihl, 0, high(total_len), low(total_len), high(id), low(id), 0, 0,
      64, 17, high(cksum), low(cksum), 10, 0, 0, 1, 10, 0, 0, 2>>

\* the header with its checksum field filled in the way update_checksum does
Sealed(h, cksum_pos) ==
    LET ck == compute_checksum(h, cksum_pos).value
    IN  [h EXCEPT ![cksum_pos + 1] = high(ck), ![cksum_pos + 2] = low(ck)]

\* The Identification that makes the words other than the checksum add up to 0xFFFF
NegZeroId == 65535 - sum_chunks_exact(Ipv4Header(5, 20, 0, 0))

Ipv4Inputs ==
    { Sealed(Ipv4Header(5, 20, 0, 0), IPV4_CHECKSUM),
      Sealed(Ipv4Header(5, 20, 0, 0), IPV4_CHECKSUM) \o <<1, 2, 3, 4>>,
      Sealed(Ipv4Header(5, 100, 0, 0), IPV4_CHECKSUM),
      Sealed(Ipv4Header(5, 19, 0, 0), IPV4_CHECKSUM),
      Sealed(Ipv4Header(4, 20, 0, 0), IPV4_CHECKSUM),
      Sealed(Ipv4Header(6, 24, 0, 0), IPV4_CHECKSUM),
      Sealed(Ipv4Header(6, 24, 0, 0), IPV4_CHECKSUM) \o <<0, 0, 0, 0>>,
      Ipv4Header(5, 20, 0, 1),
      Ipv4Header(5, 20, NegZeroId, 65535),
      Ipv4Header(5, 20, NegZeroId, 0),
      Ipv4Header(5, 20, NegZeroId + 1, 65535),
      [Sealed(Ipv4Header(5, 20, 0, 0), IPV4_CHECKSUM) EXCEPT ![1] = 101] }

Ipv6Header(first, next_header) ==
    <<first, 0, 0, 0, 0, 0, next_header, 64>> \o LinkLocal1 \o AllNodes

Ipv6Inputs ==
    { Ipv6Header(96, 17), Ipv6Header(96, 58) \o <<128, 0, 0, 0>>, Ipv6Header(96, 0),
      Ipv6Header(64, 17), To(Ipv6Header(96, 17), 39) }

EchoRequest == <<8, 0, 0, 0, 0, 1, 0, 1>>
\* an echo request with a one-byte payload whose checksum covers that byte:
\* 0xFFFF - (0x0800 + 0x0001 + 0x0001 + 0x0900)
IcmpOddEcho == <<8, 0, 238, 253, 0, 1, 0, 1, 9>>
IcmpInputs ==
    { Sealed(EchoRequest, 2), EchoRequest, Sealed(EchoRequest, 2) \o <<9>>, Rep(7, 0),
      IcmpOddEcho }

Icmpv6Echo == <<128, 0, 0, 0, 0, 1, 0, 1>>
Icmpv6Sealed ==
    LET ck == icmpv6_compute_checksum(Icmpv6Echo, LinkLocal1, AllNodes)
    IN  [Icmpv6Echo EXCEPT ![3] = high(ck), ![4] = low(ck)]
Icmpv6Inputs == { Icmpv6Sealed, Icmpv6Echo, <<128, 0, 0, 0>>, <<128, 0, 0>> }

UdpInputs ==
    { <<22, 51, 22, 51, 0, 8, 0, 0>>, <<22, 51, 22, 51, 0, 7, 0, 0>>,
      <<22, 51, 22, 51, 0, 9, 0, 0>>, <<22, 51, 22, 51, 0, 8, 0, 0, 1, 2>> }

EtherInputs == { Rep(13, 0), Rep(14, 0) }

ArpHeader(hlen, plen) == <<0, 1, 8, 0, hlen, plen, 0, 1>>
ArpInputs ==
    { ArpHeader(6, 4) \o Rep(20, 0), ArpHeader(6, 4) \o Rep(19, 0),
      ArpHeader(1, 1) \o Rep(6, 0), ArpHeader(124, 0) \o Rep(20, 0) }

Ieee802154Inputs ==
    { <<65, 136, 1, 205, 171, 2, 0, 1, 0>>, <<65, 136, 1, 205, 171, 2, 0, 1>>,
      <<2, 0, 1>>, <<1, 0, 1>>, <<1, 4, 1, 0, 0>>, <<1, 8, 1, 205, 171, 2, 0>>, <<1, 8>>,
      <<3, 0, 1>>, <<0, 0, 1>>, <<2, 0, 1, 9>> }

IphcInputs ==
    { <<123, 51, 17>>, <<123, 51, 0>>, <<123, 51>>, <<91, 51, 17>>, <<123, 179, 0, 17>>,
      <<127, 80>> \o Rep(8, 0), <<127, 55>>, <<127, 51>>, <<127, 59, 1>> }

NhcInputs == { <<247>>, <<247, 18>>, <<240, 22, 51, 22, 51, 0, 0>>, <<231, 0>>, <<>> }

CoapInputs ==
    { <<64, 1, 0, 1>>, <<65, 1, 0, 1>>, <<64, 1, 0, 1, 240>>, <<64, 1, 0, 1, 255, 72>>,
      <<64, 1, 0, 1, 224, 255>>, <<64, 1, 0, 1, 17, 7, 255, 72>> }

ParseInputs ==
    EtherInputs \cup ArpInputs \cup Ipv4Inputs \cup Ipv6Inputs \cup IcmpInputs
    \cup Icmpv6Inputs \cup UdpInputs \cup Ieee802154Inputs \cup IphcInputs
    \cup NhcInputs \cup CoapInputs

InitParse ==
    /\ build \in Builds
    /\ pc = "input"
    /\ bytes \in ParseInputs
    /\ tail \in Tails
    /\ layer = "none"
    /\ ret = NoRet
    /\ acc = NoAcc
    /\ msg = NoMsg
    /\ hist = NoHist
    /\ src6 = LinkLocal1
    /\ dst6 = AllNodes
    /\ ctxt = NoCtxt
    /\ packet = NoPacket

\* parse of layer l returned r
Parsed(l, r) ==
    /\ pc = "input"
    /\ pc' = "parsed"
    /\ layer' = l
    /\ ret' = r
    /\ UNCHANGED <<build, bytes, tail, acc, msg, hist, src6, dst6, ctxt, packet>>

ParseEther == Parsed("ether", ether_parse(bytes))
ParseArp == Parsed("arp", arp_parse(bytes))
ParseIpv4 == Parsed("ipv4", ipv4_parse(bytes, tail, build))
ParseIpv6 == Parsed("ipv6", ipv6_parse(bytes))
ParseIcmp == Parsed("icmp", icmp_parse(bytes, build))
ParseIcmpv6 == Parsed("icmpv6", icmpv6_parse(bytes))
ParseUdp == Parsed("udp", udp_parse(bytes))
ParseIeee802154 == Parsed("ieee802154", ieee802154_parse(bytes))
ParseIphc == Parsed("iphc", iphc_parse(bytes))
ParseNhc == Parsed("nhc", nhc_parse(bytes))
ParseCoap == Parsed("coap", coap_parse(bytes, tail, build))

\* arp::Packet::len, in u8 arithmetic: [panic, value]
arp_len(b, bld) ==
    LET s == b[5] + b[6]
        d == 2 * (s % 256)
        r == ARP_HEADER_SIZE + (d % 256)
    IN  IF bld = "debug" /\ (s > 255 \/ d > 255 \/ r > 255)
        THEN [panic |-> TRUE, value |-> 0]
        ELSE [panic |-> FALSE, value |-> r % 256]

\* The layers whose view has a len() method
HasLen == {"ether", "arp", "ipv4", "udp", "icmp", "coap"}

\* len() of the view that parse of layer l returned over buffer b
layer_len(l, b, bld) ==
    CASE l = "arp" -> arp_len(b, bld)
      [] l = "ipv4" -> [panic |-> FALSE, value |-> ipv4_len(b)]
      [] l = "udp" -> [panic |-> FALSE, value |-> read_u16(b[5], b[6])]
      [] l = "icmp" -> [panic |-> FALSE, value |-> icmp_len(b)]
      [] OTHER -> [panic |-> Len(b) > U16_MAX, value |-> Len(b)]

ViewLen ==
    /\ pc = "parsed"
    /\ ret.status = "ok"
    /\ layer \in HasLen
    /\ LET n == layer_len(layer, ret.buffer, build)
       IN  acc' = [NoAcc EXCEPT !.status = IF n.panic THEN "panic" ELSE "ok", !.len = n.value]
    /\ pc' = "measured"
    /\ UNCHANGED <<build, bytes, tail, layer, ret, msg, hist, src6, dst6, ctxt, packet>>

NextParse ==
    \/ ParseEther
    \/ ParseArp
    \/ ParseIpv4
    \/ ParseIpv6
    \/ ParseIcmp
    \/ ParseIcmpv6
    \/ ParseUdp
    \/ ParseIeee802154
    \/ ParseIphc
    \/ ParseNhc
    \/ ParseCoap
    \/ ViewLen

SpecParse == InitParse /\ [][NextParse]_vars

\* C2: when the parse of any layer codec fails, the caller gets the original
\* buffer back, unchanged, in the Err variant.
C2_FailedParseReturnsBuffer ==
    (pc = "parsed" /\ ret.status = "err") => (ret.returned /\ ret.buffer = bytes)


RECURSIVE OnesComplementSum(_)
\* RFC 1071: the 16-bit big-endian words of s added up, an odd last byte
\* padded with a zero byte
OnesComplementSum(s) ==
    IF s = <<>> THEN 0
    ELSE IF Len(s) = 1 THEN s[1] * 256
    ELSE read_u16(s[1], s[2]) + OnesComplementSum(From(s, 2))

\* The checksum field of s verifies: the folded sum of all words is 0xFFFF
ChecksumVerifies(s) == fold_while(OnesComplementSum(s)) = 65535

\* C3: for the checksummed layers (IPv4 header, ICMP, ICMPv6) parse never
\* returns a view over a message whose checksum field does not verify.
C3_ParsedViewChecksumVerifies ==
    (pc = "parsed" /\ ret.status = "ok") =>
        /\ layer = "ipv4" =>
              /\ ipv4_header_len(ret.buffer) <= Len(ret.buffer)
              /\ ChecksumVerifies(To(ret.buffer, ipv4_header_len(ret.buffer)))
        /\ layer = "icmp" => ChecksumVerifies(ret.buffer)
        /\ layer = "icmpv6" => icmpv6_verify_checksum(ret.buffer, src6, dst6)


\* C5: for every buffer, IPv4 parse reads only bytes of the buffer and does
\* not panic, and the header length IHL*4 of every view it returns is at
\* most the length of the view's bytes.
C5_Ipv4ParseStaysInBounds ==
    (pc = "parsed" /\ layer = "ipv4") =>
        /\ ret.status \in {"ok", "err"}
        /\ ~ret.oob
        /\ (ret.status = "ok" => ipv4_header_len(ret.buffer) <= Len(ret.buffer))


\* s is a prefix of b
IsPrefix(s, b) == Len(s) <= Len(b) /\ s = To(b, Len(s))

\* C6: for every layer that reports a length and every buffer B its parse
\* accepts with view V, the bytes of V are a prefix of B and V.len() is at
\* most the length of B.
C6_ViewIsPrefixAndLenFits ==
    /\ (pc \in {"parsed", "measured"} /\ ret.status = "ok" /\ layer \in HasLen) =>
            IsPrefix(ret.buffer, bytes)
    /\ (pc = "measured") => (acc.status = "ok" /\ acc.len <= Len(bytes))


\* The header bytes header() of a parsed IPv4 view yields, and their checksum
\* recomputed with the checksum field treated as zero
Ipv4ViewHeader == MemRange(ret.buffer, tail, 0, ipv4_header_len(ret.buffer))
Ipv4Recomputed == compute_checksum(Ipv4ViewHeader, IPV4_CHECKSUM).value
Ipv4ViewReturned == pc = "parsed" /\ layer = "ipv4" /\ ret.status = "ok"

\* C7 (as stated): for every IPv4 view returned by parse, recomputing the
\* header checksum over the view's header bytes yields exactly the value
\* of get_header_checksum().
C7_RecomputedEqualsField ==
    Ipv4ViewReturned => Ipv4Recomputed = ipv4_get_header_checksum(ret.buffer)

\* C7 (amended): for every IPv4 view returned by parse, the recomputed header
\* checksum equals get_header_checksum(), or the recomputed checksum is 0x0000
\* while the field holds 0xFFFF, the other representation of zero in one's
\* complement, which verify_checksum accepts as well.
C7_RecomputedEqualsFieldUpToNegativeZero ==
    Ipv4ViewReturned =>
        \/ Ipv4Recomputed = ipv4_get_header_checksum(ret.buffer)
        \/ (Ipv4Recomputed = 0 /\ ipv4_get_header_checksum(ret.buffer) = 65535)

\* C7 witness: parse returned a view whose checksum field is 0xFFFF where
\* the recomputation gives 0x0000
C7_NegativeZeroAccepted ==
    /\ Ipv4ViewReturned
    /\ Ipv4Recomputed = 0
    /\ ipv4_get_header_checksum(ret.buffer) = 65535


(***************************************************************************)
(* Scenario: parse arbitrary bytes as a CoAP message, then read the view   *)
(* the way panic-never/examples/coap.rs does                               *)
(***************************************************************************)
MaxBodyLen == 3

\* Option heads and extension bytes: short option, 1- and 2-byte extended
\* length, 1- and 2-byte extended delta, reserved nibble, large values, marker
CoapAlphabet == {0, 1, 13, 14, 208, 224, 240, 254, 255}

\* A 4-byte header announcing a token of tkl bytes, the token, the body
CoapWire(tkl, body) == <<64 + tkl, 1, 0, 1>> \o Rep(tkl, 170) \o body

InitCoapParse ==
    /\ build \in Builds
    /\ pc = "input"
    /\ bytes \in {CoapWire(tkl, body) : tkl \in {0, 1}, body \in SeqsUpTo(CoapAlphabet, MaxBodyLen)}
    /\ tail \in Tails
    /\ layer = "none"
    /\ ret = NoRet
    /\ acc = NoAcc
    /\ msg = NoMsg
    /\ hist = NoHist
    /\ src6 = NoAddr
    /\ dst6 = NoAddr
    /\ ctxt = NoCtxt
    /\ packet = NoPacket

NextCoapParse ==
    \/ ParseCoap
    \/ CoapAccess

SpecCoapParse == InitCoapParse /\ [][NextCoapParse]_vars

\* C4: for every byte string, CoAP parse terminates without panicking and
\* reads only bytes of its input; on every message it accepts, token(),
\* iterating options() and payload() do not panic and read only bytes of the
\* message.
C4_CoapParseAndAccessorsStayInBounds ==
    /\ (pc \in {"parsed", "accessed"}) => (ret.status \in {"ok", "err"} /\ ~ret.oob)
    /\ (pc = "accessed") => (acc.status = "ok" /\ ~acc.oob)


RECURSIVE OptionsEnd(_, _)
\* Where the bytes b, read from 0-based index i as RFC 7252 options, end:
\* "marker" at a 0xFF payload marker, "boundary" at the end of b between two
\* options, "inside" when b ends within an option's extended delta / length
\* bytes or before the end of its declared value, "reserved" at a nibble 15.
OptionsEnd(b, i) ==
    IF i >= Len(b) THEN "boundary"
    ELSE IF b[i + 1] = PAYLOAD_MARKER THEN "marker"
    ELSE
        LET d4 == b[i + 1] \div 16
            l4 == b[i + 1] % 16
            dn == IF d4 = 13 THEN 1 ELSE IF d4 = 14 THEN 2 ELSE 0
            ln == IF l4 = 13 THEN 1 ELSE IF l4 = 14 THEN 2 ELSE 0
            at == i + 1 + dn
            length == IF l4 = 13 THEN b[at + 1] + 13
                      ELSE IF l4 = 14 THEN b[at + 1] * 256 + b[at + 2] + 269
                      ELSE l4
        IN  IF d4 = 15 \/ l4 = 15 THEN "reserved"
            ELSE IF at + ln > Len(b) THEN "inside"
            ELSE IF at + ln + length > Len(b) THEN "inside"
            ELSE OptionsEnd(b, at + ln + length)

\* How the options of the CoAP message in bytes end
WireOptionsEnd == OptionsEnd(bytes, COAP_HEADER_SIZE + get_token_length(bytes))

\* C8: CoAP parse fails when the buffer ends inside an option, and succeeds
\* with an empty payload when the buffer ends exactly at an option boundary
\* without a payload marker.
C8_TruncatedOptionIsAnError ==
    (pc = "parsed") =>
        /\ WireOptionsEnd = "inside" => ret.status = "err"
        /\ WireOptionsEnd = "boundary" =>
              (ret.status = "ok" /\ coap_payload(ret, build) = AccOk(<<>>))


(***************************************************************************)
(* Scenario: compress an IPv6 header with the IPHC constructor, parse the  *)
(* bytes, read the addresses back (iphc.rs tests::new)                     *)
(***************************************************************************)
IphcBufLen == 40
IphcShortBufLen == 12

ShortLl == [kind |-> "Short", bytes |-> <<18, 52>>]
ExtendedLl == [kind |-> "Extended", bytes |-> <<0, 18, 75, 0, 0, 0, 0, 1>>]
\* an extended address whose EUI-64 has the form of a mapped short address
MappedLl == [kind |-> "Extended", bytes |-> <<2, 0, 0, 255, 254, 0, 18, 52>>]
LlAddrs == {NoLl, ShortLl, ExtendedLl, MappedLl}

\* 2001:db8::1
Global1 == <<32, 1, 13, 184>> \o Rep(11, 0) \o <<1>>

\* unspecified, link-local forms that match / do not match a context, global
UnicastAddrs ==
    { link_local(<<0, 0, 0, 255, 254, 0>> \o ShortLl.bytes),
      link_local(eui_64(ExtendedLl.bytes)),
      LinkLocal1,
      Global1 }

\* ff02::1, ff05::1:3 (ffXX::00XX:XXXX), ff0e::1:2:3:4:5 (ffXX::00XX:XXXX:XXXX),
\* ff01:100::1 (no compressed form)
MulticastAddrs ==
    { AllNodes,
      <<255, 5>> \o Rep(11, 0) \o <<1, 0, 3>>,
      <<255, 14>> \o Rep(9, 0) \o <<1, 2, 3, 4, 5>>,
      <<255, 1, 1>> \o Rep(12, 0) \o <<1>> }

InitIphc ==
    /\ build \in Builds
    /\ pc = "start"
    /\ bytes \in {Rep(IphcBufLen, 0), Rep(IphcShortBufLen, 0)}
    /\ tail = <<0>>
    /\ layer = "iphc"
    /\ ret = NoRet
    /\ acc = NoAcc
    /\ msg = NoMsg
    /\ hist = NoHist
    /\ src6 \in UnicastAddrs \cup {Rep(16, 0), AllNodes}
    /\ dst6 \in UnicastAddrs \cup MulticastAddrs
    /\ ctxt \in [source : LlAddrs, destination : LlAddrs]
    /\ packet = NoPacket

IphcNew ==
    /\ pc = "start"
    /\ \E next_header \in {<<>>, <<17>>}, hop_limit \in {255, 64, 1, 7} :
          LET p == iphc_new(bytes, next_header, hop_limit, src6, dst6, ctxt)
          IN  /\ packet' = p
              /\ pc' = IF p.status = "panic" THEN "panicked" ELSE "built"
    /\ UNCHANGED <<build, bytes, tail, layer, ret, acc, msg, hist, src6, dst6, ctxt>>

\* iphc::Packet::parse(packet.bytes())
IphcParseBuilt ==
    /\ pc = "built"
    /\ bytes' = packet.buffer
    /\ ret' = iphc_parse(packet.buffer)
    /\ pc' = "parsed"
    /\ UNCHANGED <<build, tail, layer, acc, msg, hist, src6, dst6, ctxt, packet>>

\* get_source() / get_destination() of the parsed view, elided addresses
\* completed with the context
IphcReadAddresses ==
    /\ pc = "parsed"
    /\ ret.status = "ok"
    /\ acc' = [NoAcc EXCEPT
                 !.status = "ok",
                 !.source = reconstruct(iphc_get_source(ret.buffer), ctxt.source),
                 !.destination = reconstruct(iphc_get_destination(ret.buffer), ctxt.destination)]
    /\ pc' = "read"
    /\ UNCHANGED <<build, bytes, tail, layer, ret, msg, hist, src6, dst6, ctxt, packet>>

NextIphc ==
    \/ IphcNew
    \/ IphcParseBuilt
    \/ IphcReadAddresses

SpecIphc == InitIphc /\ [][NextIphc]_vars

\* C9: for every context, every non-multicast source address and every
\* destination address (unicast or multicast), the packet the IPHC
\* constructor builds parses successfully, and the parsed view's get_source()
\* and get_destination() reconstruct to the addresses given to the
\* constructor (elided forms completed with the context).
C9_IphcNewThenParseRoundTrips ==
    /\ (pc = "parsed") => ret.status = "ok"
    /\ (pc = "read") => (acc.source = src6 /\ acc.destination = dst6)


(***************************************************************************)
(* Inputs the IPHC parser is documented to reject (iphc.rs, parse notes)   *)
(***************************************************************************)
\* index of the inline Next Header byte (get_next_header)
next_header_start(b) == ip_fields_start(b) + tf_size(b)

InlineExtensionHeader(b) ==
    /\ Len(b) >= 2
    /\ ~get_nh(b)
    /\ Len(b) > next_header_start(b)
    /\ is_ipv6_extension_header(b[next_header_start(b) + 1])

ReservedDestinationMode(b) ==
    \/ ~get_m(b) /\ get_dac(b) /\ get_dam(b) = 0
    \/ get_m(b) /\ get_dac(b) /\ get_dam(b) # 0

UnsupportedIphc(b) ==
    \/ Len(b) >= 1 /\ get_dispatch(b) # DISPATCH_VALUE
    \/ Len(b) >= 2 /\ get_cid(b)
    \/ Len(b) >= 2 /\ get_sac(b) /\ get_sam(b) # 0
    \/ Len(b) >= 2 /\ get_dac(b)
    \/ Len(b) >= 2 /\ ReservedDestinationMode(b)
    \/ InlineExtensionHeader(b)

\* C10: IPHC parse fails for every input whose dispatch bits are not 0b011,
\* or that has CID=1, or SAC=1 with SAM#0, or DAC=1, or a reserved
\* destination-mode combination, or whose inline Next Header byte names an
\* IPv6 extension header.
C10_UnsupportedIphcIsRejected ==
    (pc = "parsed" /\ layer = "iphc" /\ UnsupportedIphc(bytes)) => ret.status = "err"

(***************************************************************************)
(* IEEE 802.15.4: frames without any address                               *)
(***************************************************************************)
frame_type(b) == get(b[1], 0, 3)

BothAddrModesNone(b) ==
    /\ Len(b) >= 3
    /\ get(b[2], 2, 2) = AddrModeNone
    /\ get(b[2], 6, 2) = AddrModeNone

\* C11: IEEE 802.15.4 parse accepts a frame whose destination and source
\* addressing modes are both None when its frame type is Acknowledgment, and
\* rejects such a frame when its frame type is Data or MAC command.
C11_AddresslessFrameOnlyForAck ==
    (pc = "parsed" /\ layer = "ieee802154" /\ BothAddrModesNone(bytes)) =>
        /\ (frame_type(bytes) = Acknowledgment) => ret.status = "ok"
        /\ (frame_type(bytes) \in {Data, MacCommand}) => ret.status = "err"

(***************************************************************************)
(* IPv4 setters, truncate, update_checksum (src/src/ipv4.rs) and the       *)
(* Valid / Invalid checksum state of a packet                              *)
(***************************************************************************)
RECURSIVE BitOr(_, _)
\* a | b
BitOr(a, b) ==
    IF a = 0 THEN b
    ELSE IF b = 0 THEN a
    ELSE (IF a % 2 = 1 \/ b % 2 = 1 THEN 1 ELSE 0) + 2 * BitOr(a \div 2, b \div 2)

\* NetworkEndian::write_u16(&mut buffer[at..at + 2], x)
write_u16(buffer, at, x) == Write(buffer, at, <<high(x), low(x)>>)

ipv4_set_version(b, version) == [b EXCEPT ![1] = set(@, 4, 4, version)]
ipv4_set_ihl(b, ihl) == [b EXCEPT ![1] = set(@, 0, 4, ihl)]
ipv4_set_dscp(b, dscp) == [b EXCEPT ![2] = set(@, 2, 6, dscp)]
ipv4_set_ecn(b, ecn) == [b EXCEPT ![2] = set(@, 0, 2, ecn)]
ipv4_set_total_length(b, len) == write_u16(b, 2, len)
ipv4_set_identification(b, id) == write_u16(b, 4, id)
ipv4_clear_reserved_flag(b) == [b EXCEPT ![7] = set(@, 7, 1, 0)]
ipv4_set_df(b, df) == [b EXCEPT ![7] = set(@, 6, 1, IF df THEN 1 ELSE 0)]
ipv4_set_mf(b, mf) == [b EXCEPT ![7] = set(@, 5, 1, IF mf THEN 1 ELSE 0)]

\* the low byte is stored; the high byte is cleared under the mask and then
\* or-ed with the unmasked high byte of fo
ipv4_set_fragment_offset(b, fo) ==
    [b EXCEPT ![8] = low(fo), ![7] = BitOr(@ - (@ % 32), high(fo))]

ipv4_set_ttl(b, ttl) == [b EXCEPT ![9] = ttl]
ipv4_set_protocol(b, proto) == [b EXCEPT ![10] = proto]
ipv4_set_source(b, addr) == Write(b, 12, addr)
ipv4_set_destination(b, addr) == Write(b, 16, addr)

\* A packet: checksum state (the type parameter), or "panic", and its buffer;
\* payload is the index at which the payload starts
Ipv4Packet(status, buffer) ==
    [status |-> status, buffer |-> buffer, payload |-> ipv4_header_len(buffer)]

Ipv4Panic == [status |-> "panic", buffer |-> <<>>, payload |-> 0]

\* ipv4::Packet::new
ipv4_new(buffer) ==
    IF Len(buffer) < MIN_HEADER_SIZE THEN Ipv4Panic
    ELSE
        LET total_len == IF Len(buffer) > U16_MAX THEN U16_MAX ELSE Len(buffer)
            b1 == ipv4_set_ecn(ipv4_set_dscp(ipv4_set_ihl(ipv4_set_version(buffer, 4), 5), 0), 0)
            b2 == ipv4_set_identification(truncate(ipv4_set_total_length(b1, total_len), total_len), 0)
            b3 == ipv4_set_fragment_offset(
                      ipv4_set_mf(ipv4_set_df(ipv4_clear_reserved_flag(b2), TRUE), FALSE), 0)
        IN  Ipv4Packet("Invalid", ipv4_set_ttl(b3, 64))

\* ipv4::Packet::payload_len, a u16 subtraction: [panic, value]
ipv4_payload_len(b, bld) ==
    LET d == ipv4_get_total_length(b) - ipv4_header_len(b)
    IN  IF d < 0 /\ bld = "debug" THEN [panic |-> TRUE, value |-> 0]
        ELSE [panic |-> FALSE, value |-> d % (U16_MAX + 1)]

\* What truncate would leave behind if it never shortened the packet
ipv4_truncate_skipped(p, len, bld) == Ipv4Packet("Invalid", p.buffer)

\* ipv4::Packet::truncate (of the payload); the result is Invalid
ipv4_truncate(p, len, bld) ==
    LET pl == ipv4_payload_len(p.buffer, bld)
        total_len == ipv4_header_len(p.buffer) + len
    IN  IF pl.panic THEN Ipv4Panic
        ELSE IF pl.value > len
        THEN Ipv4Packet("Invalid", truncate(ipv4_set_total_length(p.buffer, total_len), total_len))
        ELSE Ipv4Packet("Invalid", p.buffer)

\* What update_checksum would leave behind if it did not write the field
ipv4_update_checksum_unwritten(p) == Ipv4Packet("Valid", p.buffer)

\* ipv4::Packet::update_checksum
ipv4_update_checksum(p) ==
    IF ipv4_header_len(p.buffer) > Len(p.buffer) THEN Ipv4Panic
    ELSE
        LET cksum == compute_checksum(To(p.buffer, ipv4_header_len(p.buffer)), IPV4_CHECKSUM)
        IN  IF cksum.panic THEN Ipv4Panic
            ELSE Ipv4Packet("Valid", write_u16(p.buffer, IPV4_CHECKSUM, cksum.value))

(***************************************************************************)
(* Scenario: an IPv4 packet is parsed or constructed, then its header is   *)
(* mutated, truncated and re-sealed                                        *)
(***************************************************************************)
MaxIpv4Ops == 3
Ipv4NewLen == 28

Ipv4StateInputs ==
    { Sealed(Ipv4Header(5, 20, 0, 0), IPV4_CHECKSUM),
      Sealed(Ipv4Header(5, 24, 0, 0), IPV4_CHECKSUM) \o <<1, 2, 3, 4>>,
      Sealed(Ipv4Header(6, 24, 0, 0), IPV4_CHECKSUM),
      Sealed(Ipv4Header(6, 24, 0, 0), IPV4_CHECKSUM) \o <<0, 0, 0, 0>>,
      Ipv4Header(5, 20, NegZeroId, 65535),
      Ipv4Header(5, 20, 0, 1),
      Rep(Ipv4NewLen, 0),
      Rep(Ipv4NewLen, 255),
      Rep(MIN_HEADER_SIZE - 1, 0) }

Ipv4Addrs == {<<10, 0, 0, 1>>, <<255, 255, 255, 255>>}

\* the operation that created the packet, the last operation and the number
\* of operations applied to it
NoOps == [origin |-> "none", op |-> "none", n |-> 0]

InitIpv4State ==
    /\ build \in Builds
    /\ pc = "start"
    /\ bytes \in Ipv4StateInputs
    /\ tail = <<0>>
    /\ layer = "ipv4"
    /\ ret = NoRet
    /\ acc = NoAcc
    /\ msg = NoMsg
    /\ hist = NoOps
    /\ src6 = NoAddr
    /\ dst6 = NoAddr
    /\ ctxt = NoCtxt
    /\ packet = NoPacket

\* operation op turned the packet into p
Ipv4Becomes(op, p) ==
    /\ packet' = p
    /\ hist' = [origin |-> IF hist.n = 0 THEN op ELSE hist.origin, op |-> op, n |-> hist.n + 1]
    /\ pc' = IF p.status \in {"Valid", "Invalid"} THEN "packet" ELSE "done"
    /\ UNCHANGED <<build, bytes, tail, layer, ret, acc, msg, src6, dst6, ctxt>>

Ipv4ParseValid ==
    /\ pc = "start"
    /\ LET r == ipv4_parse(bytes, tail, build)
       IN  Ipv4Becomes("parse",
               IF r.status = "ok" THEN Ipv4Packet("Valid", r.buffer)
               ELSE IF r.status = "panic" THEN Ipv4Panic
               ELSE [NoPacket EXCEPT !.status = "err"])

Ipv4New ==
    /\ pc = "start"
    /\ Ipv4Becomes("new", ipv4_new(bytes))

\* a setter of Packet<B, Invalid> (in place), or the setter of
\* Packet<B, Valid> that invalidates first: either way the result is Invalid
Ipv4Setter(op, buffer) ==
    /\ pc = "packet"
    /\ hist.n < MaxIpv4Ops
    /\ Ipv4Becomes(op, Ipv4Packet("Invalid", buffer))

Ipv4SetVersion == \E v \in {4, 6} : Ipv4Setter("set_version", ipv4_set_version(packet.buffer, v))
Ipv4SetDscp == \E v \in {0, 46} : Ipv4Setter("set_dscp", ipv4_set_dscp(packet.buffer, v))
Ipv4SetEcn == \E v \in {0, 3} : Ipv4Setter("set_ecn", ipv4_set_ecn(packet.buffer, v))
Ipv4SetIdentification ==
    \E v \in {0, 65535, NegZeroId} :
        Ipv4Setter("set_identification", ipv4_set_identification(packet.buffer, v))
Ipv4SetDf == \E v \in BOOLEAN : Ipv4Setter("set_df", ipv4_set_df(packet.buffer, v))
Ipv4SetMf == \E v \in BOOLEAN : Ipv4Setter("set_mf", ipv4_set_mf(packet.buffer, v))
Ipv4SetFragmentOffset ==
    \E v \in {0, 8191, 65535} :
        Ipv4Setter("set_fragment_offset", ipv4_set_fragment_offset(packet.buffer, v))
Ipv4SetTtl == \E v \in {64, 255} : Ipv4Setter("set_ttl", ipv4_set_ttl(packet.buffer, v))
Ipv4SetProtocol == \E v \in {1, 17} : Ipv4Setter("set_protocol", ipv4_set_protocol(packet.buffer, v))
Ipv4SetSource == \E a \in Ipv4Addrs : Ipv4Setter("set_source", ipv4_set_source(packet.buffer, a))
Ipv4SetDestination ==
    \E a \in Ipv4Addrs : Ipv4Setter("set_destination", ipv4_set_destination(packet.buffer, a))

Ipv4Truncate ==
    /\ pc = "packet"
    /\ hist.n < MaxIpv4Ops
    /\ \E len \in {0, 2, 100} : Ipv4Becomes("truncate", ipv4_truncate(packet, len, build))

\* update_checksum exists on Packet<B, Invalid> only
Ipv4UpdateChecksum ==
    /\ pc = "packet"
    /\ packet.status = "Invalid"
    /\ hist.n <= MaxIpv4Ops
    /\ Ipv4Becomes("update_checksum", ipv4_update_checksum(packet))

NextIpv4State ==
    \/ Ipv4ParseValid
    \/ Ipv4New
    \/ Ipv4SetVersion
    \/ Ipv4SetDscp
    \/ Ipv4SetEcn
    \/ Ipv4SetIdentification
    \/ Ipv4SetDf
    \/ Ipv4SetMf
    \/ Ipv4SetFragmentOffset
    \/ Ipv4SetTtl
    \/ Ipv4SetProtocol
    \/ Ipv4SetSource
    \/ Ipv4SetDestination
    \/ Ipv4Truncate
    \/ Ipv4UpdateChecksum

SpecIpv4State == InitIpv4State /\ [][NextIpv4State]_vars

\* header() of the packet, as the memory it covers
Ipv4PacketHeader(p) == MemRange(p.buffer, tail, 0, ipv4_header_len(p.buffer))

Ipv4ValidVerifies ==
    (packet.status = "Valid") => verify_checksum(Ipv4PacketHeader(packet), build) = "true"

Ipv4HeaderChangeInvalidates ==
    (/\ packet.status = "Valid"
     /\ packet'.status \in {"Valid", "Invalid"}
     /\ Ipv4PacketHeader(packet') # Ipv4PacketHeader(packet)) => packet'.status = "Invalid"

Ipv4ValidOnlyFromParseOrUpdate ==
    (packet'.status = "Valid" /\ packet' # packet) => hist'.op \in {"parse", "update_checksum"}

\* C12: after any sequence of parse, header setters, truncate and
\* update_checksum on an IPv4 packet, a packet in the Valid checksum state has
\* a header checksum that verifies; every operation that changes a header
\* byte of a Valid packet returns an Invalid packet; only a parse with a
\* verifying checksum and update_checksum produce a Valid packet.
C12_ValidStateMeansChecksumVerifies ==
    /\ []Ipv4ValidVerifies
    /\ [][Ipv4HeaderChangeInvalidates]_vars
    /\ [][Ipv4ValidOnlyFromParseOrUpdate]_vars

\* a Valid packet produced by update_checksum after the header of a parsed
\* packet was changed
C12_ResealedAfterMutation ==
    /\ packet.status = "Valid"
    /\ hist.op = "update_checksum"
    /\ hist.origin = "parse"
    /\ Ipv4PacketHeader(packet) # MemRange(bytes, tail, 0, ipv4_header_len(bytes))

\* C13: ICMP parse succeeds exactly when the input has at least 8 bytes and
\* the one's-complement sum over every byte of the message verifies against
\* the Checksum field, for even and for odd message lengths alike (an odd
\* trailing byte is included in the sum).
C13_IcmpParseIffChecksumOverWholeMessage ==
    (pc = "parsed" /\ layer = "icmp") =>
        (ret.status = "ok" <=> (Len(bytes) >= ICMP_HEADER_SIZE /\ ChecksumVerifies(bytes)))

(***************************************************************************)
(* ICMPv6 Neighbor Discovery downcasts (src/src/icmpv6.rs)                 *)
(***************************************************************************)
NeighborSolicitation == 135
NeighborAdvertisement == 136
ND_HEADER_SIZE == 24

RECURSIVE options_are_valid(_, _)
\* icmpv6::Options::are_valid: "true", "false" or "panic"; `8 * opts[1]` is a
\* u8 multiplication
options_are_valid(opts, bld) ==
    IF opts = <<>> THEN "true"
    ELSE IF Len(opts) < 2 THEN "false"
    ELSE IF 8 * opts[2] > 255 /\ bld = "debug" THEN "panic"
    ELSE
        LET length == (8 * opts[2]) % 256
        IN  IF length = 0 THEN "false"
            ELSE IF Len(opts) = length THEN "true"
            ELSE IF Len(opts) < length THEN "false"
            ELSE options_are_valid(From(opts, length), bld)

\* TryFrom<Message<B, Unknown>> for Message<B, NeighborSolicitation> and for
\* Message<B, NeighborAdvertisement> (ty): "ok", "err" or "panic"
nd_try_from(b, ty, bld) ==
    IF b[1] = ty /\ b[2] = 0 /\ Len(b) >= ND_HEADER_SIZE THEN
        IF is_multicast(Range(b, 8, 24)) THEN "err"
        ELSE IF Len(b) = ND_HEADER_SIZE THEN "ok"
        ELSE LET v == options_are_valid(From(b, ND_HEADER_SIZE), bld)
             IN  IF v = "panic" THEN "panic" ELSE IF v = "true" THEN "ok" ELSE "err"
    ELSE "err"

(***************************************************************************)
(* Scenario: parse an ICMPv6 message, downcast it to a Neighbor            *)
(* Solicitation or a Neighbor Advertisement                                *)
(***************************************************************************)
LongOptionUnits == 32

\* type, code, checksum, reserved, target address, options
NdMessage(ty, code, target, opts) == <<ty, code, 0, 0, 0, 0, 0, 0>> \o target \o opts

\* Source / Target Link-Layer Address option of `units` * 8 bytes
NdOption(ty, units, size) == <<ty, units>> \o Rep(size - 2, 7)

NdInputs ==
    UNION { { NdMessage(ty, 0, LinkLocal1, <<>>),
              NdMessage(ty, 1, LinkLocal1, <<>>),
              NdMessage(ty, 0, AllNodes, <<>>),
              To(NdMessage(ty, 0, LinkLocal1, <<>>), ND_HEADER_SIZE - 1),
              NdMessage(ty, 0, LinkLocal1, NdOption(1, 1, 8)),
              NdMessage(ty, 0, LinkLocal1, NdOption(1, 2, 16)),
              NdMessage(ty, 0, LinkLocal1, NdOption(1, 1, 8) \o NdOption(2, 1, 8)),
              NdMessage(ty, 0, LinkLocal1, NdOption(1, 0, 8)),
              NdMessage(ty, 0, LinkLocal1, NdOption(1, 2, 8)),
              NdMessage(ty, 0, LinkLocal1, NdOption(1, 1, 8) \o <<2>>),
              NdMessage(ty, 0, LinkLocal1, NdOption(1, 1, 12)),
              NdMessage(ty, 0, LinkLocal1, NdOption(1, LongOptionUnits + 1, 8)),
              NdMessage(ty, 0, LinkLocal1, NdOption(1, LongOptionUnits, 8 * LongOptionUnits)) }
            : ty \in {NeighborSolicitation, NeighborAdvertisement} }
    \cup { Icmpv6Echo, <<NeighborSolicitation, 0, 0>> }

InitNd ==
    /\ build \in Builds
    /\ pc = "input"
    /\ bytes \in NdInputs
    /\ tail = <<0>>
    /\ layer = "icmpv6"
    /\ ret = NoRet
    /\ acc = NoAcc
    /\ msg = NoMsg
    /\ hist = NoOps
    /\ src6 = LinkLocal1
    /\ dst6 = AllNodes
    /\ ctxt = NoCtxt
    /\ packet = NoPacket

NdParse ==
    /\ pc = "input"
    /\ ret' = icmpv6_parse(bytes)
    /\ pc' = "parsed"
    /\ UNCHANGED <<build, bytes, tail, layer, acc, msg, hist, src6, dst6, ctxt, packet>>

\* try_from on the parsed message; acc.payload is the buffer of the message
\* that comes back in the Err case
NdTryFrom(ty) ==
    /\ pc = "parsed"
    /\ ret.status = "ok"
    /\ LET r == nd_try_from(ret.buffer, ty, build)
       IN  acc' = [NoAcc EXCEPT !.status = r,
                                !.payload = IF r = "err" THEN ret.buffer ELSE <<>>]
    /\ hist' = [NoOps EXCEPT !.op = ty, !.n = 1]
    /\ pc' = "downcast"
    /\ UNCHANGED <<build, bytes, tail, layer, ret, msg, src6, dst6, ctxt, packet>>

TryIntoNeighborSolicitation == NdTryFrom(NeighborSolicitation)
TryIntoNeighborAdvertisement == NdTryFrom(NeighborAdvertisement)

SourceLinkLayerAddress == 1
TargetLinkLayerAddress == 2

NoLlOption == [status |-> "ok", some |-> FALSE, from |-> 0, to |-> 0]

RECURSIVE nd_find_option(_, _, _, _)
\* Options::next / OptionsMut::next applied until the filter_map finds an
\* option of type ty: the extent [from, to) of its contents, counted from
\* the start of the message, opts starting at the index base.  The indices
\* are unchecked: outside opts they panic in a debug build and reach outside
\* the message in a release build.
nd_find_option(opts, ty, bld, base) ==
    IF opts = <<>> THEN NoLlOption
    ELSE IF Len(opts) < 2 THEN [NoLlOption EXCEPT !.status = AccBad(bld).status]
    ELSE
        LET len == 8 * opts[2]
        IN  IF len < 2 \/ len > Len(opts)
            THEN [status |-> AccBad(bld).status, some |-> opts[1] = ty,
                  from |-> base + 2, to |-> base + len]
            ELSE IF opts[1] = ty
            THEN [status |-> "ok", some |-> TRUE, from |-> base + 2, to |-> base + len]
            ELSE nd_find_option(From(opts, len), ty, bld, base + len)

\* Message<B, NeighborSolicitation>::get_source_ll
nd_get_source_ll(b, bld) ==
    nd_find_option(From(b, ND_HEADER_SIZE), SourceLinkLayerAddress, bld, ND_HEADER_SIZE)

\* Message<B, NeighborAdvertisement>::get_target_ll
nd_get_target_ll(b, bld) ==
    nd_find_option(From(b, ND_HEADER_SIZE), TargetLinkLayerAddress, bld, ND_HEADER_SIZE)

\* Message<B, NeighborAdvertisement>::target_ll_mut
nd_target_ll_mut(b, bld) ==
    nd_find_option(From(b, ND_HEADER_SIZE), TargetLinkLayerAddress, bld, ND_HEADER_SIZE)

\* a getter of the downcast message is called; packet is what it returned
NdRead(ty, getter, found) ==
    /\ pc = "downcast"
    /\ acc.status = "ok"
    /\ hist.op = ty
    /\ packet' = [found EXCEPT !.status = IF @ = "ok" THEN getter ELSE @]
    /\ pc' = "read"
    /\ UNCHANGED <<build, bytes, tail, layer, ret, acc, msg, hist, src6, dst6, ctxt>>

NdGetSourceLl ==
    NdRead(NeighborSolicitation, "get_source_ll", nd_get_source_ll(ret.buffer, build))
NdGetTargetLl ==
    NdRead(NeighborAdvertisement, "get_target_ll", nd_get_target_ll(ret.buffer, build))
NdTargetLlMut ==
    NdRead(NeighborAdvertisement, "target_ll_mut", nd_target_ll_mut(ret.buffer, build))

NextNd ==
    \/ NdParse
    \/ TryIntoNeighborSolicitation
    \/ TryIntoNeighborAdvertisement
    \/ NdGetSourceLl
    \/ NdGetTargetLl
    \/ NdTargetLlMut

SpecNd == InitNd /\ [][NextNd]_vars

RECURSIVE OptionsWellFormed(_)
\* RFC 4861 4.6: empty, or options whose Length (units of 8 octets) is at
\* least 1 and whose extents end exactly at the end
OptionsWellFormed(opts) ==
    IF opts = <<>> THEN TRUE
    ELSE IF Len(opts) < 2 THEN FALSE
    ELSE IF opts[2] = 0 THEN FALSE
    ELSE IF Len(opts) < 8 * opts[2] THEN FALSE
    ELSE OptionsWellFormed(From(opts, 8 * opts[2]))

NdWellFormed(b, ty) ==
    /\ Len(b) >= ND_HEADER_SIZE
    /\ b[1] = ty
    /\ b[2] = 0
    /\ b[9] # 255
    /\ OptionsWellFormed(From(b, ND_HEADER_SIZE))

\* C14: downcasting an ICMPv6 message to NeighborSolicitation (135) or
\* NeighborAdvertisement (136) succeeds exactly when the Type matches, Code
\* is 0, the message has at least 24 bytes, the Target Address is not
\* multicast and the bytes after offset 24 are empty or well-formed options
\* (Length 1..255 in units of 8 octets, ending exactly at the end of the
\* message); otherwise the message is returned unchanged.
C14_NdDowncastIffWellFormed ==
    (pc = "downcast") =>
        /\ acc.status = "ok" <=> NdWellFormed(ret.buffer, hist.op)
        /\ acc.status # "ok" => (acc.status = "err" /\ acc.payload = bytes)

(***************************************************************************)
(* UDP and Ethernet builders (src/src/udp.rs, src/src/ether.rs)            *)
(* A builder result is [panic, buffer].                                    *)
(***************************************************************************)
ETHER_TYPE_IPV4 == 2048
PROTOCOL_UDP == 17

Built(buffer) == [panic |-> FALSE, buffer |-> buffer]
BuildPanic == [panic |-> TRUE, buffer |-> <<>>]

udp_get_length(b) == read_u16(b[5], b[6])
udp_set_source(b, port) == write_u16(b, 0, port)
udp_set_destination(b, port) == write_u16(b, 2, port)
udp_set_length(b, len) == write_u16(b, 4, len)
udp_set_checksum(b, checksum) == write_u16(b, 6, checksum)

\* udp::Packet::new
udp_new(buffer) ==
    IF Len(buffer) < UDP_HEADER_SIZE THEN BuildPanic
    ELSE
        LET len == IF Len(buffer) > U16_MAX THEN U16_MAX ELSE Len(buffer)
        IN  Built(udp_set_length(udp_set_checksum(truncate(buffer, len), 0), len))

\* udp::Packet::payload_len, a u16 subtraction: [panic, value]
udp_payload_len(b, bld) ==
    LET d == udp_get_length(b) - UDP_HEADER_SIZE
    IN  IF d < 0 /\ bld = "debug" THEN [panic |-> TRUE, value |-> 0]
        ELSE [panic |-> FALSE, value |-> d % (U16_MAX + 1)]

\* udp::Packet::truncate (of the payload)
udp_truncate(b, len, bld) ==
    LET pl == udp_payload_len(b, bld)
        total_len == len + UDP_HEADER_SIZE
    IN  IF pl.panic THEN BuildPanic
        ELSE IF len < pl.value
        THEN IF total_len > U16_MAX /\ bld = "debug" THEN BuildPanic
             ELSE Built(udp_set_length(truncate(b, total_len % (U16_MAX + 1)),
                                       total_len % (U16_MAX + 1)))
        ELSE Built(b)

\* udp::Packet::set_payload; copy_from_slice panics unless the payload has
\* exactly the length of data
udp_set_payload(b, data, bld) ==
    LET pl == udp_payload_len(b, bld)
    IN  IF pl.panic \/ pl.value < Len(data) THEN BuildPanic
        ELSE
            LET t == udp_truncate(b, Len(data), bld)
            IN  IF t.panic THEN BuildPanic
                ELSE IF Len(t.buffer) - UDP_HEADER_SIZE # Len(data) THEN BuildPanic
                ELSE Built(Write(t.buffer, UDP_HEADER_SIZE, data))

\* ether::Frame::new
ether_new(buffer) == IF Len(buffer) < ETHER_HEADER_SIZE THEN BuildPanic ELSE Built(buffer)

ether_set_type(b, type_) == write_u16(b, 12, type_)

(***************************************************************************)
(* Scenario: eth.ipv4(|ip| { ...; ip.udp(|udp| { ...; udp.set_payload(p) }) *)
(* ...}) (udp.rs tests::construct).  The frame, the IPv4 packet and the    *)
(* UDP packet are views of one array: packet.buffer is the frame, the IPv4 *)
(* view covers packet.ip bytes from ETHER_HEADER_SIZE on, the UDP view     *)
(* covers packet.udp bytes from the start of the IPv4 payload on.          *)
(***************************************************************************)
MaxCallbackOps == 3
FrameLens == {44, 47}
UdpPayloads == {<<>>, <<72>>, <<72, 105, 33>>, <<1, 2, 3, 4, 5, 6>>}
Ports == {0, 1337}

NoFrame == [status |-> "none", buffer |-> <<>>, ip |-> 0, udp |-> 0]

IpView(f) == Range(f.buffer, ETHER_HEADER_SIZE, ETHER_HEADER_SIZE + f.ip)
UdpStart(f) == ETHER_HEADER_SIZE + ipv4_header_len(IpView(f))
UdpView(f) == Range(f.buffer, UdpStart(f), UdpStart(f) + f.udp)

\* the view that starts at 0-based index at now holds v
WithView(f, at, v) == Write(f.buffer, at, v)

InitNested ==
    /\ build \in Builds
    /\ pc = "start"
    /\ bytes \in {Rep(n, x) : n \in FrameLens, x \in {0, 255}}
    /\ tail = <<0>>
    /\ layer = "ether"
    /\ ret = NoRet
    /\ acc = NoAcc
    /\ msg = NoMsg
    /\ hist = NoOps
    /\ src6 = NoAddr
    /\ dst6 = NoAddr
    /\ ctxt = NoCtxt
    /\ packet = NoFrame

\* hist.n counts the field settings made by the callbacks
NestedStep(op, f, next) ==
    /\ packet' = f
    /\ hist' = [hist EXCEPT !.op = op, !.n = IF next = pc THEN @ + 1 ELSE @]
    /\ pc' = IF f.status = "panic" THEN "panicked" ELSE next
    /\ UNCHANGED <<build, bytes, tail, layer, ret, msg, src6, dst6, ctxt>>

FramePanic == [NoFrame EXCEPT !.status = "panic"]

\* ether::Frame::new, then Frame::ipv4 up to the call of the callback:
\* set_type(Ipv4); ipv4::Packet::new(self.payload_mut())
EthIpv4Begin ==
    /\ pc = "start"
    /\ acc' = acc
    /\ LET e == ether_new(bytes)
           typed == ether_set_type(e.buffer, ETHER_TYPE_IPV4)
           ip == ipv4_new(From(typed, ETHER_HEADER_SIZE))
       IN  NestedStep("eth.ipv4",
               IF e.panic \/ ip.status = "panic" THEN FramePanic
               ELSE [status |-> "ok", buffer |-> Write(typed, ETHER_HEADER_SIZE, ip.buffer),
                     ip |-> Len(ip.buffer), udp |-> 0],
               "ip")

\* a field setting inside the IPv4 callback, before or after ip.udp(..)
IpCallbackSet(op, v) ==
    /\ pc \in {"ip", "ip_done"}
    /\ hist.n < MaxCallbackOps
    /\ acc' = acc
    /\ NestedStep(op, [packet EXCEPT !.buffer = WithView(packet, ETHER_HEADER_SIZE, v)], pc)

CbIpSetSource == \E a \in Ipv4Addrs : IpCallbackSet("ip.set_source", ipv4_set_source(IpView(packet), a))
CbIpSetDestination ==
    \E a \in Ipv4Addrs : IpCallbackSet("ip.set_destination", ipv4_set_destination(IpView(packet), a))
CbIpSetIdentification ==
    \E id \in {0, 65535} :
        IpCallbackSet("ip.set_identification", ipv4_set_identification(IpView(packet), id))

\* ipv4::Packet::udp up to the call of the callback:
\* set_protocol(Udp); udp::Packet::new(self.payload_mut())
IpUdpBegin ==
    /\ pc = "ip"
    /\ acc' = acc
    /\ LET ip == ipv4_set_protocol(IpView(packet), PROTOCOL_UDP)
           udp == udp_new(From(ip, ipv4_header_len(ip)))
       IN  NestedStep("ip.udp",
               IF udp.panic THEN FramePanic
               ELSE [packet EXCEPT
                       !.buffer = Write(WithView(packet, ETHER_HEADER_SIZE, ip),
                                        UdpStart(packet), udp.buffer),
                       !.udp = Len(udp.buffer)],
               "udp")

UdpCallbackSet(op, v) ==
    /\ pc = "udp"
    /\ hist.n < MaxCallbackOps
    /\ acc' = acc
    /\ NestedStep(op, [packet EXCEPT !.buffer = WithView(packet, UdpStart(packet), v)], pc)

CbUdpSetSource == \E p \in Ports : UdpCallbackSet("udp.set_source", udp_set_source(UdpView(packet), p))
CbUdpSetDestination ==
    \E p \in Ports : UdpCallbackSet("udp.set_destination", udp_set_destination(UdpView(packet), p))

\* udp.set_payload(p), the last statement of the UDP callback; acc.payload
\* remembers p
CbUdpSetPayload ==
    /\ pc = "udp"
    /\ \E p \in UdpPayloads :
          LET u == udp_set_payload(UdpView(packet), p, build)
          IN  /\ acc' = [NoAcc EXCEPT !.payload = p]
              /\ NestedStep("udp.set_payload",
                     IF u.panic THEN FramePanic
                     ELSE [packet EXCEPT !.buffer = WithView(packet, UdpStart(packet), u.buffer),
                                         !.udp = Len(u.buffer)],
                     "udp_done")

\* the UDP callback returned: ipv4::Packet::udp resumes with
\* `let len = udp.len(); self.truncate(len)`
IpUdpEnd ==
    /\ pc = "udp_done"
    /\ acc' = acc
    /\ LET len == udp_get_length(UdpView(packet))
           ip == ipv4_truncate(Ipv4Packet("Invalid", IpView(packet)), len, build)
       IN  NestedStep("ip.udp returns",
               IF ip.status = "panic" THEN FramePanic
               ELSE [packet EXCEPT !.buffer = WithView(packet, ETHER_HEADER_SIZE, ip.buffer),
                                   !.ip = Len(ip.buffer)],
               "ip_done")

\* the IPv4 callback returned: Frame::ipv4 resumes with
\* `ip.update_checksum().get_total_length()` and truncates the frame
EthIpv4End ==
    /\ pc = "ip_done"
    /\ acc' = acc
    /\ LET ip == ipv4_update_checksum(Ipv4Packet("Invalid", IpView(packet)))
           len == ETHER_HEADER_SIZE + ipv4_get_total_length(ip.buffer)
       IN  NestedStep("eth.ipv4 returns",
               IF ip.status = "panic" \/ (len > U16_MAX /\ build = "debug") THEN FramePanic
               ELSE [packet EXCEPT
                       !.buffer = truncate(WithView(packet, ETHER_HEADER_SIZE, ip.buffer),
                                           len % (U16_MAX + 1))],
               "returned")

NextNested ==
    \/ EthIpv4Begin
    \/ CbIpSetSource
    \/ CbIpSetDestination
    \/ CbIpSetIdentification
    \/ IpUdpBegin
    \/ CbUdpSetSource
    \/ CbUdpSetDestination
    \/ CbUdpSetPayload
    \/ IpUdpEnd
    \/ EthIpv4End

SpecNested == InitNested /\ [][NextNested]_vars

\* the views as the caller sees them once eth.ipv4 has returned
FinalIp == From(packet.buffer, ETHER_HEADER_SIZE)
FinalUdp == From(FinalIp, ipv4_header_len(FinalIp))

ICMP_ECHO_REPLY == 0
ICMP_ECHO_REQUEST == 8
ICMPV6_ECHO_REQUEST == 128
ICMPV6_ECHO_REPLY == 129
ICMP_CHECKSUM == 2

\* icmp: TryFrom<Message<B, Unknown, C>> for Message<B, EchoRequest, C>
icmp_is_echo_request(b) == b[1] = ICMP_ECHO_REQUEST /\ b[2] = 0

\* icmpv6: TryFrom<Message<B, Unknown>> for Message<B, EchoRequest>
icmpv6_is_echo_request(b) == b[1] = ICMPV6_ECHO_REQUEST /\ b[2] = 0 /\ Len(b) >= 8

\* update_checksum without the write of the Checksum field
icmp_update_checksum_unwritten(b) ==
    [status |-> "Valid", buffer |-> b, payload |-> ICMP_HEADER_SIZE]

\* icmp::Message::update_checksum: [status, buffer, payload]
icmp_update_checksum(b) ==
    LET cksum == compute_checksum(b, ICMP_CHECKSUM)
    IN  IF cksum.panic THEN [NoPacket EXCEPT !.status = "panic"]
        ELSE [status |-> "Valid", buffer |-> write_u16(b, ICMP_CHECKSUM, cksum.value),
              payload |-> ICMP_HEADER_SIZE]

\* icmp: From<Message<B, EchoRequest, C>> for Message<B, EchoReply, Valid>:
\* set_type(EchoReply), then update_checksum()
icmp_into_echo_reply(b) == icmp_update_checksum([b EXCEPT ![1] = ICMP_ECHO_REPLY])

\* icmpv6: From<Message<B, EchoRequest>> for Message<B, EchoReply>:
\* set_type(EchoReply); the ICMPv6 message type has no checksum state
icmpv6_into_echo_reply(b) ==
    [status |-> "untracked", buffer |-> [b EXCEPT ![1] = ICMPV6_ECHO_REPLY],
     payload |-> ICMPV6_HEADER_SIZE]

\* icmpv6::Message::update_checksum(src, dest)
icmpv6_update_checksum(b, src, dest) ==
    write_u16(b, ICMP_CHECKSUM, icmpv6_compute_checksum(b, src, dest))

(***************************************************************************)
(* Scenario: parse an echo request, turn it into the reply                 *)
(***************************************************************************)
EchoPayloads == {<<>>, <<9>>, <<9, 9>>, <<255, 255, 255, 255>>, <<1, 2, 3>>}

\* type, code, checksum, identifier, sequence number, payload; the checksum
\* is the one's complement of the RFC 1071 sum of the rest
EchoMessage(ty, ident, data) ==
    LET m == <<ty, 0, 0, 0, high(ident), low(ident), 0, 1>> \o data
        ck == 65535 - fold_while(OnesComplementSum(m))
    IN  [m EXCEPT ![3] = high(ck), ![4] = low(ck)]

\* the last element is an odd-length message whose checksum covers its first
\* eight bytes: ipv4::verify_checksum (chunks_exact) accepts it in a release build
EchoInputs ==
    { EchoMessage(ty, ident, data) :
        ty \in {ICMP_ECHO_REQUEST, ICMPV6_ECHO_REQUEST}, ident \in {1, 65535}, data \in EchoPayloads }
    \cup { EchoMessage(ICMP_ECHO_REQUEST, 1, <<>>) \o <<9>> }

InitEcho ==
    /\ build \in Builds
    /\ pc = "input"
    /\ bytes \in EchoInputs
    /\ tail = <<0>>
    /\ layer \in {"icmp", "icmpv6"}
    /\ ret = NoRet
    /\ acc = NoAcc
    /\ msg = NoMsg
    /\ hist = NoOps
    /\ src6 = LinkLocal1
    /\ dst6 = AllNodes
    /\ ctxt = NoCtxt
    /\ packet = NoPacket

\* parse followed by downcast::<EchoRequest>(); ret is what parse returned
EchoParsed(l, r, is_request) ==
    /\ pc = "input"
    /\ layer = l
    /\ ret' = r
    /\ pc' = IF r.status = "ok" /\ is_request THEN "request" ELSE "done"
    /\ hist' = [hist EXCEPT !.op = "parse"]
    /\ UNCHANGED <<build, bytes, tail, layer, acc, msg, src6, dst6, ctxt, packet>>

IcmpParseEchoRequest == EchoParsed("icmp", icmp_parse(bytes, build), icmp_is_echo_request(bytes))
Icmpv6ParseEchoRequest == EchoParsed("icmpv6", icmpv6_parse(bytes), icmpv6_is_echo_request(bytes))

EchoBecomes(op, p, next) ==
    /\ packet' = p
    /\ hist' = [hist EXCEPT !.op = op, !.n = @ + 1]
    /\ pc' = IF p.status = "panic" THEN "panicked" ELSE next
    /\ UNCHANGED <<build, bytes, tail, layer, ret, acc, msg, src6, dst6, ctxt>>

IcmpIntoEchoReply ==
    /\ pc = "request"
    /\ layer = "icmp"
    /\ EchoBecomes("into", icmp_into_echo_reply(ret.buffer), "reply")

Icmpv6IntoEchoReply ==
    /\ pc = "request"
    /\ layer = "icmpv6"
    /\ EchoBecomes("into", icmpv6_into_echo_reply(ret.buffer), "reply")

Icmpv6UpdateChecksum ==
    /\ pc = "reply"
    /\ layer = "icmpv6"
    /\ EchoBecomes("update_checksum",
                   [packet EXCEPT !.buffer = icmpv6_update_checksum(@, src6, dst6)], "sealed")

NextEcho ==
    \/ IcmpParseEchoRequest
    \/ Icmpv6ParseEchoRequest
    \/ IcmpIntoEchoReply
    \/ Icmpv6IntoEchoReply
    \/ Icmpv6UpdateChecksum

SpecEcho == InitEcho /\ [][NextEcho]_vars

\* b with its Type byte replaced
Retyped(b, ty) == [b EXCEPT ![1] = ty]

\* a and b differ at most in the Checksum field
SameButChecksum(a, b) ==
    /\ Len(a) = Len(b)
    /\ \A i \in 1..Len(a) : i \notin {ICMP_CHECKSUM + 1, ICMP_CHECKSUM + 2} => a[i] = b[i]

\* C16 (as stated): converting an ICMP EchoRequest view into an EchoReply
\* view writes only the Type byte in place and yields a view whose checksum
\* state is Invalid; the Checksum field is rewritten, and the view becomes
\* Valid again, only through a subsequent update_checksum.
C16_ConversionWritesOnlyType ==
    (pc \in {"reply", "panicked"} /\ hist.op = "into") =>
        /\ packet.status # "panic"
        /\ packet.status # "Valid"
        /\ packet.buffer = Retyped(ret.buffer, IF layer = "icmp" THEN ICMP_ECHO_REPLY
                                               ELSE ICMPV6_ECHO_REPLY)

\* C16 (amended): the ICMP conversion writes the Type byte and, through the
\* update_checksum it calls itself, the Checksum field, and yields a Valid
\* view whose checksum verifies -- or panics, exactly when the message has
\* an odd length; the ICMPv6 conversion writes only the Type byte, and only a
\* subsequent update_checksum(src, dest) rewrites the Checksum field, after
\* which the checksum verifies.
C16_IcmpConversionSealsIcmpv6DoesNot ==
    /\ (pc \in {"reply", "panicked"} /\ hist.op = "into" /\ layer = "icmp") =>
          IF Len(ret.buffer) % 2 = 1 THEN packet.status = "panic"
          ELSE /\ packet.status = "Valid"
               /\ SameButChecksum(packet.buffer, Retyped(ret.buffer, ICMP_ECHO_REPLY))
               /\ ChecksumVerifies(packet.buffer)
    /\ (pc = "reply" /\ layer = "icmpv6") =>
          /\ packet.status = "untracked"
          /\ packet.buffer = Retyped(ret.buffer, ICMPV6_ECHO_REPLY)
    /\ (pc = "sealed") =>
          /\ SameButChecksum(packet.buffer, Retyped(ret.buffer, ICMPV6_ECHO_REPLY))
          /\ icmpv6_verify_checksum(packet.buffer, src6, dst6)

\* an ICMP echo request became a Valid reply whose Checksum field differs
\* from the request's
C16_IcmpReplySealedByConversion ==
    /\ pc = "reply"
    /\ layer = "icmp"
    /\ packet.status = "Valid"
    /\ Range(packet.buffer, 2, 4) # Range(ret.buffer, 2, 4)

(***************************************************************************)
(* LOWPAN_NHC UDP checksum (src/src/sixlowpan/nhc.rs)                      *)
(***************************************************************************)
UDP_NEXT_HEADER == 17

\* nhc::UdpPacket::get_source
nhc_get_source(b) ==
    CASE get_p(b) \in {0, 1} -> read_u16(b[2], b[3])
      [] get_p(b) = 2 -> 61440 + b[2]
      [] OTHER -> 61616 + (b[2] \div 16)

\* nhc::UdpPacket::get_destination
nhc_get_destination(b) ==
    CASE get_p(b) = 0 -> read_u16(b[4], b[5])
      [] get_p(b) = 1 -> 61440 + b[4]
      [] get_p(b) = 2 -> read_u16(b[3], b[4])
      [] OTHER -> 61616 + (b[2] % 16)

\* nhc::UdpPacket::get_checksum: [some, value]
nhc_get_checksum(b) ==
    IF ~get_c(b)
    THEN LET start == 1 + ports_size(b)
         IN  [some |-> TRUE, value |-> read_u16(b[start + 1], b[start + 2])]
    ELSE [some |-> FALSE, value |-> 0]

\* nhc::UdpPacket::payload, p.payload being the index parse stored
nhc_payload(p) == From(p.buffer, p.payload)

RECURSIVE nhc_sum_chunks(_)
\* the loop over payload().chunks(2) of nhc::UdpPacket::compute_checksum
nhc_sum_chunks(s) ==
    IF s = <<>> THEN 0
    ELSE IF Len(s) = 1 THEN s[1] * 256
    ELSE read_u16(s[1], s[2]) + nhc_sum_chunks(From(s, 2))

\* nhc::UdpPacket::compute_checksum, the sum before the carry is folded
nhc_sum(p, src, dest) ==
    LET udp_len == Len(nhc_payload(p)) + 8
    IN  sum_chunks_exact(src) + sum_chunks_exact(dest)
        + (udp_len \div 65536) + (udp_len % 65536) + UDP_NEXT_HEADER
        + nhc_get_source(p.buffer) + nhc_get_destination(p.buffer)
        + (udp_len \div 65536) + (udp_len % 65536)
        + nhc_sum_chunks(nhc_payload(p))

\* nhc::UdpPacket::compute_checksum
nhc_compute_checksum(p, src, dest) == 65535 - (fold_while(nhc_sum(p, src, dest)) % 65536)

\* set_checksum writing one byte before where get_checksum reads
nhc_set_checksum_shifted(b, cksum) == write_u16(b, ports_size(b), cksum)

\* nhc::UdpPacket::set_checksum
nhc_set_checksum(b, cksum) == write_u16(b, 1 + ports_size(b), cksum)

\* nhc::UdpPacket::update_checksum
nhc_update_checksum(p, src, dest) ==
    IF ~get_c(p.buffer)
    THEN [p EXCEPT !.buffer = nhc_set_checksum(@, nhc_compute_checksum(p, src, dest))]
    ELSE p

\* nhc::UdpPacket::verify_ipv6_checksum
nhc_verify_ipv6_checksum(p, src, dest) ==
    LET cksum == nhc_get_checksum(p.buffer)
    IN  IF cksum.some THEN nhc_compute_checksum(p, src, dest) = cksum.value ELSE TRUE

(***************************************************************************)
(* Scenario: update_checksum followed by verify_checksum on the same view  *)
(***************************************************************************)
AllOnes == Rep(16, 255)
SealAddrs == {LinkLocal1, AllNodes, AllOnes}
SealData == {<<>>, <<9>>, <<127, 197>>, <<111, 192, 16>>, <<1, 2, 3, 4>>}
StaleChecksums == {<<0, 0>>, <<171, 205>>}

Icmpv6SealInputs ==
    { <<ty, 0>> \o ck \o data :
        ty \in {ICMPV6_ECHO_REQUEST, NeighborSolicitation}, ck \in StaleChecksums, data \in SealData }

\* the NHC byte 11110 C PP, the ports as P lays them out, the checksum
\* unless C elides it, the payload
NhcPorts(p) ==
    CASE p = 0 -> {<<255, 224, 0, 0>>, <<246, 224, 0, 0>>, <<5, 57, 0, 53>>}
      [] p = 1 -> {<<5, 57, 7>>}
      [] p = 2 -> {<<7, 5, 57>>}
      [] OTHER -> {<<18>>}

NhcSealInputs ==
    UNION { { <<240 + 4 * c + p>> \o ports \o (IF c = 0 THEN ck ELSE <<>>) \o data :
                ports \in NhcPorts(p), ck \in StaleChecksums, data \in SealData } :
            p \in 0..3, c \in 0..1 }

InitSeal ==
    /\ build \in Builds
    /\ pc = "input"
    /\ layer \in {"icmpv6", "nhc"}
    /\ bytes \in IF layer = "icmpv6" THEN Icmpv6SealInputs ELSE NhcSealInputs
    /\ tail = <<0>>
    /\ ret = NoRet
    /\ acc = NoAcc
    /\ msg = NoMsg
    /\ hist = NoOps
    /\ src6 \in SealAddrs
    /\ dst6 \in SealAddrs
    /\ ctxt = NoCtxt
    /\ packet = NoPacket

SealStep(l, from, to, op, p) ==
    /\ pc = from
    /\ layer = l
    /\ packet' = p
    /\ pc' = IF p.status = "err" THEN "done" ELSE to
    /\ hist' = [hist EXCEPT !.op = op, !.n = @ + 1]
    /\ UNCHANGED <<build, bytes, tail, layer, ret, acc, msg, src6, dst6, ctxt>>

\* a successfully parsed packet as [status, buffer, payload]
AsPacket(r) == [status |-> r.status, buffer |-> r.buffer, payload |-> r.payload]

SealIcmpv6Parse == SealStep("icmpv6", "input", "parsed", "parse", AsPacket(icmpv6_parse(bytes)))
SealNhcParse == SealStep("nhc", "input", "parsed", "parse", AsPacket(nhc_parse(bytes)))

SealIcmpv6Update ==
    SealStep("icmpv6", "parsed", "sealed", "update_checksum",
             [packet EXCEPT !.buffer = icmpv6_update_checksum(@, src6, dst6)])

SealNhcUpdate ==
    SealStep("nhc", "parsed", "sealed", "update_checksum", nhc_update_checksum(packet, src6, dst6))

Verdict(ok) == IF ok THEN "verified" ELSE "rejected"

SealIcmpv6Verify ==
    SealStep("icmpv6", "sealed", "checked", "verify_checksum",
             [packet EXCEPT !.status = Verdict(icmpv6_verify_checksum(packet.buffer, src6, dst6))])

SealNhcVerify ==
    SealStep("nhc", "sealed", "checked", "verify_checksum",
             [packet EXCEPT !.status = Verdict(nhc_verify_ipv6_checksum(packet, src6, dst6))])

NextSeal ==
    \/ SealIcmpv6Parse
    \/ SealNhcParse
    \/ SealIcmpv6Update
    \/ SealNhcUpdate
    \/ SealIcmpv6Verify
    \/ SealNhcVerify

SpecSeal == InitSeal /\ [][NextSeal]_vars

\* the while loop that folds the carry runs more than once
TwoFolds(sum) == sum \div 65536 # 0 /\ ((sum % 65536) + (sum \div 65536)) \div 65536 # 0

\* C17: for every source address, destination address and message contents,
\* verify_checksum(src, dst) returns true on an ICMPv6 message or an NHC UDP
\* packet to which update_checksum(src, dst) was just applied, for even and
\* odd lengths and for sums that need more than one carry fold.
C17_UpdateThenVerifyHolds ==
    /\ pc = "checked" => packet.status = "verified"
    /\ (pc = "sealed" /\ layer = "icmpv6") => icmpv6_verify_checksum(packet.buffer, src6, dst6)
    /\ (pc = "sealed" /\ layer = "nhc") => nhc_verify_ipv6_checksum(packet, src6, dst6)

\* verified after update_checksum rewrote a stale checksum of an odd-length
\* NHC UDP payload whose sum needs two carry folds
C17_OddTwoFoldVerified ==
    /\ pc = "checked"
    /\ layer = "nhc"
    /\ packet.status = "verified"
    /\ packet.buffer # bytes
    /\ Len(nhc_payload(packet)) % 2 = 1
    /\ TwoFolds(nhc_sum(packet, src6, dst6))

(***************************************************************************)
(* Owning slices (src/owning-slice/src/{lib,from,to,sealed}.rs)            *)
(* A view is [status, kind: "Slice" | "From" | "To", index: "u8" | "u16",  *)
(* buffer: the length of the underlying array, start, length]; an          *)
(* OwningSliceFrom has no length field and an OwningSliceTo keeps its `end`*)
(* in length and has no start field (both read 0 here).                    *)
(***************************************************************************)
U8_MAX == 255

\* sealed::Index::max
index_max(index) == IF index = "u8" THEN U8_MAX ELSE U16_MAX

\* `x as I` / sealed::Index::from_usize
index_cast(index, x) == x % (index_max(index) + 1)

\* `self.start + start` in the index type: [panic, value]
index_add(index, a, b, bld) ==
    IF a + b > index_max(index)
    THEN [panic |-> bld = "debug", value |-> (a + b) % (index_max(index) + 1)]
    ELSE [panic |-> FALSE, value |-> a + b]

View(kind, index, buffer, start, length) ==
    [status |-> "ok", kind |-> kind, index |-> index, buffer |-> buffer,
     start |-> start, length |-> length]

NoView == [View("Slice", "u8", 0, 0, 0) EXCEPT !.status = "none"]
SlicePanic(v) == [v EXCEPT !.status = "panic"]

\* AsSlice::as_slice: the pointer offset and the length handed to from_raw_parts
slice_start(v) == IF v.kind = "To" THEN 0 ELSE v.start
slice_len(v) == IF v.kind = "From" THEN v.buffer - v.start ELSE v.length

\* fn OwningSlice(buffer, start, length) without its assert
owning_slice_unchecked(buffer, index, start, length) == View("Slice", index, buffer, start, length)

\* fn OwningSlice(buffer, start, length)
owning_slice(buffer, index, start, length) ==
    IF start + length <= buffer THEN View("Slice", index, buffer, start, length)
    ELSE SlicePanic(NoView)

\* fn OwningSliceFrom(buffer, start)
owning_slice_from(buffer, index, start) ==
    IF start <= buffer /\ buffer - start <= index_max(index)
    THEN View("From", index, buffer, start, 0)
    ELSE SlicePanic(NoView)

\* fn OwningSliceTo(buffer, end)
owning_slice_to(buffer, index, end) ==
    IF end <= buffer THEN View("To", index, buffer, 0, end) ELSE SlicePanic(NoView)

\* the impls that exist for a view with index type v.index and arguments of type ty
Implemented(v, op, ty) ==
    \/ ty = v.index
    \/ v.kind # "From"
    \/ op = "into_slice"
    \/ (v.index = "u16" /\ ty = "u8")

\* the view with its start advanced by s, or the panic of the addition
Advanced(v, s, length, bld) ==
    LET sum == index_add(v.index, v.start, index_cast(v.index, s), bld)
    IN  IF sum.panic THEN SlicePanic(v)
        ELSE View("Slice", v.index, v.buffer, sum.value, length)

\* IntoSlice::into_slice for OwningSlice, OwningSliceFrom and OwningSliceTo
into_slice(v, start, length, bld) ==
    IF ~(start + length <= slice_len(v)) THEN SlicePanic(v)
    ELSE IF v.kind = "To"
         THEN View("Slice", v.index, v.buffer, index_cast(v.index, start), index_cast(v.index, length))
         ELSE Advanced(v, start, index_cast(v.index, length), bld)

\* IntoSliceFrom::into_slice_from
into_slice_from(v, start, bld) ==
    IF ~(start <= slice_len(v)) THEN SlicePanic(v)
    ELSE CASE v.kind = "To" ->
                View("Slice", v.index, v.buffer, index_cast(v.index, start),
                     v.length - index_cast(v.index, start))
           [] v.kind = "Slice" -> Advanced(v, start, v.length - index_cast(v.index, start), bld)
           [] OTHER -> [Advanced(v, start, 0, bld) EXCEPT !.kind = "From"]

\* IntoSliceTo::into_slice_to
into_slice_to(v, end) ==
    IF ~(end <= slice_len(v)) THEN SlicePanic(v)
    ELSE IF v.kind = "To" THEN View("To", v.index, v.buffer, 0, index_cast(v.index, end))
         ELSE View("Slice", v.index, v.buffer, v.start, index_cast(v.index, end))

\* From<OwningSliceFrom<B, I>> / From<OwningSliceTo<B, I>> for OwningSlice<B, I>
owning_slice_from_view(v) ==
    IF v.kind = "From"
    THEN View("Slice", v.index, v.buffer, v.start, index_cast(v.index, slice_len(v)))
    ELSE View("Slice", v.index, v.buffer, 0, v.length)

\* Truncate::truncate for OwningSlice and OwningSliceTo
slice_truncate(v, len) ==
    IF len < v.length THEN [v EXCEPT !.length = index_cast(v.index, len)] ELSE v


(***************************************************************************)
(* Scenario: a chain of owning-slice calls over one array.  packet is the  *)
(* current view, ret the view the last call consumed, msg the last call.   *)
(***************************************************************************)
MaxSliceOps == 3
ArrayLens == {6, 300, 65600}
IndexTypes == {"u8", "u16"}
U8Args == {0, 1, 100, 200}
U16Args == U8Args \cup {65500}
IndexArgs(ty) == IF ty = "u8" THEN U8Args ELSE U16Args

Call(op, ty, a, b) == [op |-> op, ty |-> ty, a |-> a, b |-> b]
NoCall == Call("none", "u8", 0, 0)

InitSlices ==
    /\ build \in Builds
    /\ pc = "array"
    /\ bytes = <<>>
    /\ tail = <<0>>
    /\ layer = "owning-slice"
    /\ ret = NoView
    /\ acc = NoAcc
    /\ msg = NoCall
    /\ hist = NoOps
    /\ src6 = NoAddr
    /\ dst6 = NoAddr
    /\ ctxt = NoCtxt
    /\ packet = NoView

SliceStep(call, v) ==
    /\ hist.n < MaxSliceOps
    /\ ret' = packet
    /\ msg' = call
    /\ packet' = v
    /\ pc' = IF v.status = "panic" THEN "panicked" ELSE "view"
    /\ hist' = [hist EXCEPT !.op = call.op, !.n = @ + 1]
    /\ UNCHANGED <<build, bytes, tail, layer, acc, src6, dst6, ctxt>>

OwningSliceNew ==
    /\ pc = "array"
    /\ \E buffer \in ArrayLens, index \in IndexTypes :
         \E start \in IndexArgs(index), length \in IndexArgs(index) :
            SliceStep(Call("OwningSlice", index, start, length) @@ [buffer |-> buffer],
                      owning_slice(buffer, index, start, length))

OwningSliceFromNew ==
    /\ pc = "array"
    /\ \E buffer \in ArrayLens, index \in IndexTypes :
         \E start \in IndexArgs(index) :
            SliceStep(Call("OwningSliceFrom", index, start, 0) @@ [buffer |-> buffer],
                      owning_slice_from(buffer, index, start))

OwningSliceToNew ==
    /\ pc = "array"
    /\ \E buffer \in ArrayLens, index \in IndexTypes :
         \E end \in IndexArgs(index) :
            SliceStep(Call("OwningSliceTo", index, end, 0) @@ [buffer |-> buffer],
                      owning_slice_to(buffer, index, end))

IntoSlice ==
    /\ pc = "view"
    /\ \E ty \in IndexTypes :
         /\ Implemented(packet, "into_slice", ty)
         /\ \E start \in IndexArgs(ty), length \in IndexArgs(ty) :
              SliceStep(Call("into_slice", ty, start, length),
                        into_slice(packet, start, length, build))

IntoSliceFrom ==
    /\ pc = "view"
    /\ \E ty \in IndexTypes :
         /\ Implemented(packet, "into_slice_from", ty)
         /\ \E start \in IndexArgs(ty) :
              SliceStep(Call("into_slice_from", ty, start, 0), into_slice_from(packet, start, build))

IntoSliceTo ==
    /\ pc = "view"
    /\ \E ty \in IndexTypes :
         /\ Implemented(packet, "into_slice_to", ty)
         /\ \E end \in IndexArgs(ty) :
              SliceStep(Call("into_slice_to", ty, end, 0), into_slice_to(packet, end))

OwningSliceFromView ==
    /\ pc = "view"
    /\ packet.kind # "Slice"
    /\ SliceStep(Call("from", packet.index, 0, 0), owning_slice_from_view(packet))

SliceTruncate ==
    /\ pc = "view"
    /\ packet.kind # "From"
    /\ \E ty \in IndexTypes :
         \E len \in IndexArgs(ty) :
            SliceStep(Call("truncate", ty, len, 0), slice_truncate(packet, len))

NextSlices ==
    \/ OwningSliceNew
    \/ OwningSliceFromNew
    \/ OwningSliceToNew
    \/ IntoSlice
    \/ IntoSliceFrom
    \/ IntoSliceTo
    \/ OwningSliceFromView
    \/ SliceTruncate

SpecSlices == InitSlices /\ [][NextSlices]_vars

\* packet views exactly the elements [from, from + len) of the view ret
ViewsExactly(from, len) ==
    /\ packet.status = "ok"
    /\ slice_start(packet) = slice_start(ret) + from
    /\ slice_len(packet) = len

\* C18: for every owning slice x with u8 or u16 indices over a buffer of any
\* length, and every s, l with s + l <= x.len(), x.into_slice(s, l) views
\* exactly x.as_slice()[s..s+l], x.into_slice_from(s) views exactly
\* x.as_slice()[s..] and x.into_slice_to(l) views exactly x.as_slice()[..l],
\* without panicking, also when x starts at a non-zero offset of the buffer.
C18_SubSliceViewsExactlyTheRange ==
    /\ (msg.op = "into_slice" /\ msg.a + msg.b <= slice_len(ret)) => ViewsExactly(msg.a, msg.b)
    /\ (msg.op = "into_slice_from" /\ msg.a <= slice_len(ret)) =>
          ViewsExactly(msg.a, slice_len(ret) - msg.a)
    /\ (msg.op = "into_slice_to" /\ msg.a <= slice_len(ret)) => ViewsExactly(0, msg.a)


\* the view lies within the underlying array
WithinArray(v) == slice_start(v) + slice_len(v) <= v.buffer

\* the arguments of the last constructor or sub-slicing call reach outside
\* the array, or the view, they are applied to
ReachesOutside ==
    \/ msg.op = "OwningSlice" /\ msg.a + msg.b > msg.buffer
    \/ msg.op \in {"OwningSliceFrom", "OwningSliceTo"} /\ msg.a > msg.buffer
    \/ msg.op = "into_slice" /\ msg.a + msg.b > slice_len(ret)
    \/ msg.op \in {"into_slice_from", "into_slice_to"} /\ msg.a > slice_len(ret)

\* C19 (as stated): after any sequence of construction, into_slice,
\* into_slice_from, into_slice_to, conversion and truncate calls, every call
\* either panics or yields a view within the underlying array, and a call
\* whose arguments reach outside the current view always panics.
C19_OutOfViewCallsAlwaysPanic ==
    /\ packet.status = "ok" => WithinArray(packet)
    /\ (ReachesOutside \/ (msg.op = "truncate" /\ msg.a > slice_len(ret))) =>
          packet.status = "panic"

\* C19 (amended): every call either panics or yields a view within the
\* underlying array; a constructor or into_slice* call whose arguments reach
\* outside the array or the current view always panics; truncate never
\* panics, and with a length that is not below the current one it leaves the
\* view as it is.
C19_ViewsStayWithinTheArray ==
    /\ packet.status = "ok" => WithinArray(packet)
    /\ ReachesOutside => packet.status = "panic"
    /\ msg.op = "truncate" => packet.status = "ok"
    /\ (msg.op = "truncate" /\ msg.a >= slice_len(ret)) => packet = ret

\* a sub-slicing call at the end of a chain reached outside a view that ends
\* before the array does, and panicked
C19_OutOfViewPanicked ==
    /\ pc = "panicked"
    /\ hist.n = MaxSliceOps
    /\ msg.op = "into_slice"
    /\ msg.a + msg.b > slice_len(ret)
    /\ slice_start(ret) + msg.a + msg.b <= ret.buffer


(***************************************************************************)
(* Scenario: add_option calls on a new message, over buffers shorter and   *)
(* longer than a u16 can index.  add_option reads nothing of the buffer    *)
(* but its length, so the states keep the sizes of a message only: msg is  *)
(* the message after the last call, ret the message before it, acc the     *)
(* arguments of the call.                                                  *)
(***************************************************************************)
MaxOptionCalls == 2
HugeBuf == 65600
HugeValueLen == 65520

OptionBufferLens == {SmallBuf, LargeBuf, HugeBuf}
OptionValueLens == {0, LongValueLen, HugeValueLen}
OptionCall(number, len) == [number |-> number, len |-> len]

\* the sizes of a message, and a message of these sizes
Sizes(m) == [len |-> Len(m.buffer), marker |-> m.marker, number |-> m.number, state |-> m.state]
Sized(z) == [buffer |-> Rep(z.len, 0), marker |-> z.marker, number |-> z.number, state |-> z.state]

InitOptions ==
    /\ build \in Builds
    /\ pc = "start"
    /\ bytes = <<>>
    /\ tail = <<0>>
    /\ layer = "coap"
    /\ ret = Sizes(NoMsg)
    /\ acc = OptionCall(0, 0)
    /\ msg = Sizes(NoMsg)
    /\ hist = NoOps
    /\ src6 = NoAddr
    /\ dst6 = NoAddr
    /\ ctxt = NoCtxt
    /\ packet = NoPacket

OptionsNew ==
    /\ pc = "start"
    /\ \E len \in OptionBufferLens, token_length \in {0, 2} :
          /\ msg' = Sizes(coap_new(Rep(len, 0), token_length))
          /\ pc' = after(msg', "unset")
    /\ hist' = [hist EXCEPT !.origin = "new", !.op = "new"]
    /\ UNCHANGED <<build, bytes, tail, layer, ret, acc, src6, dst6, ctxt, packet>>

OptionsAddOption ==
    /\ pc = "unset"
    /\ hist.n < MaxOptionCalls
    /\ \E number \in OptionNumbers, len \in OptionValueLens :
          /\ msg' = Sizes(coap_add_option(Sized(msg), number, Rep(len, 7)))
          /\ acc' = OptionCall(number, len)
    /\ ret' = msg
    /\ pc' = after(msg', "unset")
    /\ hist' = [hist EXCEPT !.op = "add_option", !.n = @ + 1]
    /\ UNCHANGED <<build, bytes, tail, layer, src6, dst6, ctxt, packet>>

NextOptions ==
    \/ OptionsNew
    \/ OptionsAddOption

SpecOptions == InitOptions /\ [][NextOptions]_vars

\* bytes an option header needs beyond its first byte to hold x
ExtendedBytes(x) == Len(ext_bytes(x))

\* 1 header byte + extended delta bytes + extended length bytes + value bytes
EncodedSize == 1 + ExtendedBytes(acc.number - ret.number) + ExtendedBytes(acc.len) + acc.len

OutOfOrder == acc.number < ret.number
DoesNotFit == ret.marker + EncodedSize > ret.len

ipv6_get_version(b) == get(b[1], 4, 4)
ipv6_get_traffic_class(b) == get(read_u16(b[1], b[2]), 4, 8)
ipv6_get_flow_label(b) == (b[2] % 16) * 65536 + read_u16(b[3], b[4])
ipv6_get_length(b) == read_u16(b[5], b[6])

ipv6_set_version(b) == [b EXCEPT ![1] = set(@, 4, 4, 6)]

\* ipv6::Packet::set_traffic_class: both nibbles are masked
ipv6_set_traffic_class(b, tc) ==
    [b EXCEPT ![2] = (@ % 16) + (tc % 16) * 16,
              ![1] = (@ - (@ % 16)) + ((tc \div 16) % 16)]

\* ipv6::Packet::set_flow_label: the low half-word is stored; the low nibble
\* of the second byte is cleared and or-ed with `(fl >> 16) as u8`
ipv6_set_flow_label(b, fl) ==
    [write_u16(b, 2, fl % 65536) EXCEPT ![2] = BitOr(@ - (@ % 16), (fl \div 65536) % 256)]

ipv6_set_length(b, len) == write_u16(b, 4, len)
ipv6_set_hop_limit(b, hl) == [b EXCEPT ![8] = hl]

\* ipv6::Packet::new; `(blen - HEADER_SIZE) as u16` truncates
ipv6_new(buffer) ==
    LET blen == Len(buffer)
    IN  IF ~(blen >= IPV6_HEADER_SIZE \/ blen > U16_MAX + IPV6_HEADER_SIZE)
        THEN [status |-> "panic", buffer |-> <<>>]
        ELSE [status |-> "ok",
              buffer |-> ipv6_set_hop_limit(
                            ipv6_set_length(
                               ipv6_set_flow_label(
                                  ipv6_set_traffic_class(ipv6_set_version(buffer), 0), 0),
                               (blen - IPV6_HEADER_SIZE) % (U16_MAX + 1)),
                            255)]

(***************************************************************************)
(* Scenario: a new IPv4 or IPv6 packet and its bit-field setters.  The     *)
(* setters touch the header only, so a state keeps the header and the      *)
(* length of the buffer: packet is the view after the last call, ret the   *)
(* view before it, msg the call.                                           *)
(***************************************************************************)
MaxFieldOps == 3
Ipv6NewLens == {0, 39, 40, 48, 65575, 65576, 65600}
Fills == {0, 255}
TrafficClasses == {0, 171, 255}
\* 20-bit values and values that need 21 and 24 bits
FlowLabels == {0, 74565, 1048575, 1048576, 11259375}
FragmentOffsets == {0, 8191, 8192, 65535}

FieldCall(op, arg) == [op |-> op, arg |-> arg]
HeaderView(status, buffer, header_len) ==
    [status |-> status, len |-> Len(buffer),
     buffer |-> IF Len(buffer) < header_len THEN buffer ELSE To(buffer, header_len)]
NoHeaderView == [status |-> "none", len |-> 0, buffer |-> <<>>]

InitFields ==
    /\ build \in Builds
    /\ pc = "start"
    /\ bytes = <<>>
    /\ tail = <<0>>
    /\ layer \in {"ipv4", "ipv6"}
    /\ ret = NoHeaderView
    /\ acc = NoAcc
    /\ msg = FieldCall("none", 0)
    /\ hist = NoOps
    /\ src6 = NoAddr
    /\ dst6 = NoAddr
    /\ ctxt = NoCtxt
    /\ packet = NoHeaderView

FieldStep(call, v) ==
    /\ ret' = packet
    /\ msg' = call
    /\ packet' = v
    /\ pc' = IF v.status = "panic" THEN "panicked" ELSE "packet"
    /\ hist' = [hist EXCEPT !.op = call.op, !.n = @ + 1]
    /\ UNCHANGED <<build, bytes, tail, layer, acc, src6, dst6, ctxt>>

FieldsIpv6New ==
    /\ pc = "start"
    /\ layer = "ipv6"
    /\ \E len \in Ipv6NewLens, fill \in Fills :
          LET p == ipv6_new(Rep(len, fill))
          IN  FieldStep(FieldCall("new", len), HeaderView(p.status, p.buffer, IPV6_HEADER_SIZE))

FieldsIpv4New ==
    /\ pc = "start"
    /\ layer = "ipv4"
    /\ \E len \in {MIN_HEADER_SIZE - 1, Ipv4NewLen}, fill \in Fills :
          LET p == ipv4_new(Rep(len, fill))
          IN  FieldStep(FieldCall("new", len), HeaderView(p.status, p.buffer, MIN_HEADER_SIZE))

FieldSetter(l, op, arg, buffer) ==
    /\ pc = "packet"
    /\ layer = l
    /\ hist.n < MaxFieldOps
    /\ FieldStep(FieldCall(op, arg), [packet EXCEPT !.buffer = buffer])

Ipv6SetTrafficClass ==
    \E tc \in TrafficClasses :
        FieldSetter("ipv6", "set_traffic_class", tc, ipv6_set_traffic_class(packet.buffer, tc))

Ipv6SetFlowLabel ==
    \E fl \in FlowLabels :
        FieldSetter("ipv6", "set_flow_label", fl, ipv6_set_flow_label(packet.buffer, fl))

FieldsSetDf ==
    \E df \in BOOLEAN : FieldSetter("ipv4", "set_df", df, ipv4_set_df(packet.buffer, df))

FieldsSetMf ==
    \E mf \in BOOLEAN : FieldSetter("ipv4", "set_mf", mf, ipv4_set_mf(packet.buffer, mf))

FieldsSetFragmentOffset ==
    \E fo \in FragmentOffsets :
        FieldSetter("ipv4", "set_fragment_offset", fo, ipv4_set_fragment_offset(packet.buffer, fo))

NextFields ==
    \/ FieldsIpv6New
    \/ FieldsIpv4New
    \/ Ipv6SetTrafficClass
    \/ Ipv6SetFlowLabel
    \/ FieldsSetDf
    \/ FieldsSetMf
    \/ FieldsSetFragmentOffset

SpecFields == InitFields /\ [][NextFields]_vars

\* C21: ipv6 Packet::new panics when the buffer is shorter than the 40-byte
\* header and when the payload length buffer.len() - 40 is larger than 65535;
\* in every other case it returns a packet whose PayloadLength field equals
\* buffer.len() - 40.
C21_Ipv6NewPanicsOrSetsPayloadLength ==
    (layer = "ipv6" /\ msg.op = "new") =>
        IF msg.arg < IPV6_HEADER_SIZE \/ msg.arg - IPV6_HEADER_SIZE > U16_MAX
        THEN packet.status = "panic"
        ELSE /\ packet.status = "ok"
             /\ ipv6_get_length(packet.buffer) = msg.arg - IPV6_HEADER_SIZE


\* the reserved, DF and MF bits of the IPv4 flags byte
ipv4_flag_bits(b) == get(b[7], 5, 3)

\* C30: every header bit-field setter changes only the bits of its own field,
\* for every argument value including values wider than the field: IPv4
\* set_fragment_offset leaves the reserved/DF/MF flag bits unchanged, IPv6
\* set_flow_label leaves the Version and Traffic Class bits unchanged, and
\* IPv6 set_traffic_class leaves the Version and Flow Label bits unchanged.
C30_SettersChangeOnlyTheirField ==
    /\ msg.op = "set_fragment_offset" =>
          ipv4_flag_bits(packet.buffer) = ipv4_flag_bits(ret.buffer)
    /\ msg.op = "set_flow_label" =>
          /\ ipv6_get_version(packet.buffer) = ipv6_get_version(ret.buffer)
          /\ ipv6_get_traffic_class(packet.buffer) = ipv6_get_traffic_class(ret.buffer)
    /\ msg.op = "set_traffic_class" =>
          /\ ipv6_get_version(packet.buffer) = ipv6_get_version(ret.buffer)
          /\ ipv6_get_flow_label(packet.buffer) = ipv6_get_flow_label(ret.buffer)


(***************************************************************************)
(* The address encodings of LOWPAN_IPHC, as parse and the address          *)
(* accessors read them                                                     *)
(***************************************************************************)
\* a header with TF, NH and HLIM elided, the given address bits, and the
\* inline bytes of the source and of the destination
AddressHeader(sac, sam, m, dam, src_inline, dest_inline) ==
    <<127, set(set(set(set(0, 6, 1, sac), 4, 2, sam), 3, 1, m), 0, 2, dam)>>
        \o src_inline \o dest_inline

\* the inline bytes with which a source mode can carry the address a
SourceInline(sam, a) ==
    CASE sam = 0 -> a [] sam = 1 -> From(a, 8) [] sam = 2 -> From(a, 14) [] OTHER -> <<>>

\* the inline bytes with which a destination mode can carry the address a
DestinationInline(m, dam, a) ==
    IF m = 0 THEN SourceInline(dam, a)
    ELSE CASE dam = 0 -> a
           [] dam = 1 -> <<a[2]>> \o From(a, 11)
           [] dam = 2 -> <<a[2]>> \o From(a, 13)
           [] OTHER -> <<a[16]>>

\* parse accepts the encoding and get_source, completed with ll, gives a
SourceEncodes(sac, sam, a, ll) ==
    LET inline == IF sac = 1 THEN <<>> ELSE SourceInline(sam, a)
        b == AddressHeader(sac, sam, 0, 0, inline, Rep(16, 0))
    IN  /\ iphc_parse(b).status = "ok"
        /\ reconstruct(iphc_get_source(b), ll) = a

\* parse accepts the encoding and get_destination, completed with ll, gives a
DestinationEncodes(m, dam, a, ll) ==
    LET b == AddressHeader(1, 0, m, dam, <<>>, DestinationInline(m, dam, a))
    IN  /\ iphc_parse(b).status = "ok"
        /\ reconstruct(iphc_get_destination(b), ll) = a

MinOf(S) == CHOOSE x \in S : \A y \in S : x <= y

\* the fewest inline bytes of an accepted encoding that stands for a
MinSourceInline(a, ll) ==
    MinOf({ IF sac = 1 THEN 0 ELSE Len(SourceInline(sam, a)) :
              <<sac, sam>> \in { e \in (0..1) \X (0..3) : SourceEncodes(e[1], e[2], a, ll) } })

MinDestinationInline(a, ll) ==
    MinOf({ Len(DestinationInline(e[1], e[2], a)) :
              e \in { e \in (0..1) \X (0..3) : DestinationEncodes(e[1], e[2], a, ll) } })

\* the inline address bytes of a packet `new` built
EmittedInline(p) == p.payload - 2 - nh_size(p.buffer) - hlim_size(p.buffer)

\* C22: for every source address, destination address and context, the IPHC
\* constructor emits the fewest inline address bytes among the source and
\* destination encodings that parse accepts and that reconstruct the same
\* addresses; in particular an address equal to the link-local address derived
\* from the context's short or extended link-layer address is fully elided.
C22_IphcNewEmitsFewestInlineBytes ==
    (pc = "built") =>
        /\ EmittedInline(packet) =
              MinSourceInline(src6, ctxt.source) + MinDestinationInline(dst6, ctxt.destination)
        /\ (ctxt.source.kind # "None" /\ src6 = complete(ctxt.source)) =>
              src_addr_size(packet.buffer) = 0
        /\ (ctxt.destination.kind # "None" /\ dst6 = complete(ctxt.destination)) =>
              dest_addr_size(packet.buffer).size = 0


(***************************************************************************)
(* IEEE 802.15.4 data frames: Frame::data, the address getters and         *)
(* set_payload                                                             *)
(***************************************************************************)
RECURSIVE Reverse(_)
Reverse(s) == IF s = <<>> THEN <<>> ELSE Append(Reverse(Tail(s)), Head(s))

\* byteorder LE::write_u16 / write_u64 and LE::read_u16 / read_u64 of a value
\* given by its network-endian bytes
le_write(buffer, at, ne) == Write(buffer, at, Reverse(ne))
le_read(buffer, at, n) == Reverse(Range(buffer, at, at + n))

\* ieee802154::Addr::mode and Addr::size
addr_mode(a) == IF a.kind = "Short" THEN AddrModeShort ELSE AddrModeExtended
addr_size(a) == IF a.kind = "Short" THEN 2 ELSE 8

\* SrcDest::size of the IntraPan variant
intra_pan_size(src_addr, dest_addr) == 2 + addr_size(src_addr) + addr_size(dest_addr)

ieee802154_set_frame_type(b, ftype) == [b EXCEPT ![1] = set(@, 0, 3, ftype)]
ieee802154_set_intra_pan(b, ip) == [b EXCEPT ![1] = set(@, 6, 1, ip)]
ieee802154_set_dest_addr_mode(b, am) == [b EXCEPT ![2] = set(@, 2, 2, am)]
ieee802154_set_src_addr_mode(b, am) == [b EXCEPT ![2] = set(@, 6, 2, am)]

\* Frame::data writing the source address before the destination address
ieee802154_data_src_first(buffer, pan_id, src_addr, dest_addr) ==
    LET payload == 3 + intra_pan_size(src_addr, dest_addr)
    IN  IF Len(buffer) < payload THEN [NoPacket EXCEPT !.status = "panic"]
        ELSE LET b0 == ieee802154_set_intra_pan(
                           ieee802154_set_frame_type(Write(buffer, 0, <<0, 0, 0>>), Data), 1)
                 b1 == le_write(b0, 3, <<high(pan_id), low(pan_id)>>)
                 b2 == le_write(ieee802154_set_src_addr_mode(b1, addr_mode(src_addr)),
                                5, src_addr.bytes)
                 b3 == le_write(ieee802154_set_dest_addr_mode(b2, addr_mode(dest_addr)),
                                5 + addr_size(src_addr), dest_addr.bytes)
             IN  [status |-> "ok", buffer |-> b3, payload |-> payload]

\* Frame::data with the SrcDest::IntraPan variant
ieee802154_data(buffer, pan_id, src_addr, dest_addr) ==
    LET payload == 3 + intra_pan_size(src_addr, dest_addr)
    IN  IF Len(buffer) < payload THEN [NoPacket EXCEPT !.status = "panic"]
        ELSE LET b0 == ieee802154_set_intra_pan(
                           ieee802154_set_frame_type(Write(buffer, 0, <<0, 0, 0>>), Data), 1)
                 b1 == le_write(b0, 3, <<high(pan_id), low(pan_id)>>)
                 b2 == le_write(ieee802154_set_dest_addr_mode(b1, addr_mode(dest_addr)),
                                5, dest_addr.bytes)
                 b3 == le_write(ieee802154_set_src_addr_mode(b2, addr_mode(src_addr)),
                                5 + addr_size(dest_addr), src_addr.bytes)
             IN  [status |-> "ok", buffer |-> b3, payload |-> payload]

ieee802154_get_intra_pan(b) == get(b[1], 6, 1) = 1
ieee802154_get_dest_addr_mode(b) == get(b[2], 2, 2)
ieee802154_get_src_addr_mode(b) == get(b[2], 6, 2)

NoPanId == [some |-> FALSE, id |-> 0]
SomePanId(ne) == [some |-> TRUE, id |-> read_u16(ne[1], ne[2])]

\* an Addr read with the given mode at the 0-based index start
AddrAt(b, mode, start) ==
    CASE mode = AddrModeShort -> [kind |-> "Short", bytes |-> le_read(b, start, 2)]
      [] mode = AddrModeExtended -> [kind |-> "Extended", bytes |-> le_read(b, start, 8)]
      [] OTHER -> NoLl

ieee802154_get_dest_pan_id(b) ==
    IF ieee802154_get_dest_addr_mode(b) = AddrModeNone THEN NoPanId
    ELSE SomePanId(le_read(b, 3, 2))

\* the index `start` the getters compute for the fields after the
\* destination PAN identifier
dest_addr_start(b) == 3 + (IF ieee802154_get_dest_pan_id(b).some THEN 2 ELSE 0)
src_pan_id_start(b) == dest_addr_start(b) + addr_mode_size(ieee802154_get_dest_addr_mode(b))

ieee802154_get_dest_addr(b) == AddrAt(b, ieee802154_get_dest_addr_mode(b), dest_addr_start(b))

ieee802154_get_src_pan_id(b) ==
    IF ieee802154_get_src_addr_mode(b) # AddrModeNone /\ ~ieee802154_get_intra_pan(b)
    THEN SomePanId(le_read(b, src_pan_id_start(b), 2))
    ELSE NoPanId

ieee802154_get_src_addr(b) ==
    AddrAt(b, ieee802154_get_src_addr_mode(b),
           src_pan_id_start(b) + (IF ieee802154_get_src_pan_id(b).some THEN 2 ELSE 0))

\* Truncate<u8> for &mut [u8]
slice_truncate_u8(b, len) == IF len < Len(b) THEN To(b, len) ELSE b

\* set_payload of a view that caches the payload index in a u8:
\* `self.buffer.truncate(self.payload + plen as u8)`
set_payload_u8(p, data, bld) ==
    LET plen == Len(data)
        end == p.payload + (plen % 256)
    IN  IF Len(p.buffer) - p.payload < plen THEN [p EXCEPT !.status = "panic"]
        ELSE IF end > U8_MAX /\ bld = "debug" THEN [p EXCEPT !.status = "panic"]
        ELSE [p EXCEPT !.buffer = slice_truncate_u8(Write(p.buffer, p.payload, data), end % 256)]

\* ieee802154::Frame::set_payload
ieee802154_set_payload(p, data, bld) == set_payload_u8(p, data, bld)

(***************************************************************************)
(* Scenario: a data frame is built over a buffer, its payload is set, and  *)
(* the bytes of the frame are parsed again.                                *)
(***************************************************************************)
PanIds == {0, 48879, 65535}
FrameAddrs ==
    {[kind |-> "Short", bytes |-> <<1, 2>>], [kind |-> "Short", bytes |-> <<255, 255>>],
     [kind |-> "Extended", bytes |-> <<1, 2, 3, 4, 5, 6, 7, 8>>],
     [kind |-> "Extended", bytes |-> Rep(8, 255)]}
DataBufferLens == {8, 9, 15, 21, 24}
DataPayloads == {<<>>, <<170, 85>>}

InitData ==
    /\ build \in Builds
    /\ pc = "start"
    /\ bytes = <<>>
    /\ tail = <<0>>
    /\ layer = "ieee802154"
    /\ ret = NoRet
    /\ acc = NoAcc
    /\ msg = FieldCall("none", 0)
    /\ hist = NoOps
    /\ src6 = NoAddr
    /\ dst6 = NoAddr
    /\ ctxt = NoCtxt
    /\ packet = NoPacket

\* Frame::data(buffer, SrcDest::IntraPan { pan_id, src_addr, dest_addr })
DataNew ==
    /\ pc = "start"
    /\ \E len \in DataBufferLens, fill \in Fills, pan_id \in PanIds, src_addr \in FrameAddrs,
          dest_addr \in FrameAddrs :
          /\ bytes' = Rep(len, fill)
          /\ msg' = FieldCall("data", pan_id)
          /\ ctxt' = [source |-> src_addr, destination |-> dest_addr]
          /\ packet' = ieee802154_data(bytes', pan_id, src_addr, dest_addr)
    /\ pc' = IF packet'.status = "panic" THEN "panicked" ELSE "frame"
    /\ UNCHANGED <<build, tail, layer, ret, acc, hist, src6, dst6>>

\* frame.set_payload(data)
DataSetPayload ==
    /\ pc = "frame"
    /\ \E data \in DataPayloads :
          /\ packet' = ieee802154_set_payload(packet, data, build)
          /\ hist' = [hist EXCEPT !.op = "set_payload", !.n = Len(data)]
    /\ pc' = IF packet'.status = "panic" THEN "panicked" ELSE "set"
    /\ UNCHANGED <<build, bytes, tail, layer, ret, acc, msg, src6, dst6, ctxt>>

\* Frame::parse(frame.as_bytes())
DataParse ==
    /\ pc \in {"frame", "set"}
    /\ ret' = ieee802154_parse(packet.buffer)
    /\ pc' = "parsed"
    /\ UNCHANGED <<build, bytes, tail, layer, acc, msg, hist, src6, dst6, ctxt, packet>>

NextData ==
    \/ DataNew
    \/ DataSetPayload
    \/ DataParse

SpecData == InitData /\ [][NextData]_vars

\* C23: for every PAN id and every source and destination address, short or
\* extended in every combination, the frame built by Frame::data with an
\* empty payload parses again successfully, with intra_pan = true, the
\* destination PAN id given, and the address modes and addresses given.
C23_DataFrameReparsesWithItsAddresses ==
    (pc = "parsed" /\ layer = "ieee802154" /\ Len(packet.buffer) = packet.payload) =>
        /\ ret.status = "ok"
        /\ ret.payload = packet.payload
        /\ ieee802154_get_intra_pan(ret.buffer)
        /\ ieee802154_get_dest_pan_id(ret.buffer) = [some |-> TRUE, id |-> msg.arg]
        /\ ieee802154_get_src_pan_id(ret.buffer) = NoPanId
        /\ ieee802154_get_dest_addr_mode(ret.buffer) = addr_mode(ctxt.destination)
        /\ ieee802154_get_src_addr_mode(ret.buffer) = addr_mode(ctxt.source)
        /\ ieee802154_get_dest_addr(ret.buffer) = ctxt.destination
        /\ ieee802154_get_src_addr(ret.buffer) = ctxt.source

\* a frame with an extended destination and a short source, emptied by
\* set_payload(&[]) over a longer buffer, has been parsed again
C23_MixedFrameParsedAgain ==
    /\ pc = "parsed"
    /\ layer = "ieee802154"
    /\ hist.op = "set_payload"
    /\ Len(bytes) > packet.payload
    /\ Len(packet.buffer) = packet.payload
    /\ ctxt.destination.kind = "Extended"
    /\ ctxt.source.kind = "Short"
    /\ ret.status = "ok"


(***************************************************************************)
(* LOWPAN_NHC UDP: the constructor                                         *)
(***************************************************************************)
\* the `p` mode `new` picks for a pair of ports
nhc_new_p(source, destination) ==
    IF source \div 16 = 3851 /\ destination \div 16 = 3851 THEN 3
    ELSE IF source \div 256 = 240 THEN 2
    ELSE IF destination \div 256 = 240 THEN 1
    ELSE 0

\* the port bytes `new` writes after the NHC byte in mode p
nhc_new_ports(p, source, destination) ==
    CASE p = 0 -> <<high(source), low(source), high(destination), low(destination)>>
      [] p = 1 -> <<high(source), low(source), destination % 256>>
      [] p = 2 -> <<source % 256, high(destination), low(destination)>>
      [] OTHER -> <<((source % 16) * 16) + (destination % 16)>>

\* UdpPacket::new announcing the mode of an elided destination prefix when
\* it elides the source prefix, and vice versa
nhc_new_modes_swapped(buffer, elide_checksum, source, destination) ==
    LET p == nhc_new_p(source, destination)
        ports == nhc_new_ports(p, source, destination)
        payload == 1 + Len(ports) + (IF elide_checksum THEN 0 ELSE 2)
        c == IF elide_checksum THEN 1 ELSE 0
        announced == CASE p = 1 -> 2 [] p = 2 -> 1 [] OTHER -> p
    IN  IF Len(buffer) < payload THEN [NoPacket EXCEPT !.status = "panic"]
        ELSE [status |-> "ok",
              buffer |-> Write(buffer, 0, <<NHC_ID_VALUE * 8 + c * 4 + announced>> \o ports),
              payload |-> payload]

\* nhc::UdpPacket::new
nhc_new(buffer, elide_checksum, source, destination) ==
    LET p == nhc_new_p(source, destination)
        ports == nhc_new_ports(p, source, destination)
        payload == 1 + Len(ports) + (IF elide_checksum THEN 0 ELSE 2)
        c == IF elide_checksum THEN 1 ELSE 0
    IN  IF Len(buffer) < payload THEN [NoPacket EXCEPT !.status = "panic"]
        ELSE [status |-> "ok",
              buffer |-> Write(buffer, 0, <<NHC_ID_VALUE * 8 + c * 4 + p>> \o ports),
              payload |-> payload]

(***************************************************************************)
(* Scenario: an NHC UDP packet is built over a buffer and its bytes are    *)
(* parsed again.                                                           *)
(***************************************************************************)
NhcNewPorts == {0, 4660, 61439, 61440, 61615, 61616, 61631, 61632, 61695, 61696, 65535}
NhcNewLens == {1, 2, 3, 4, 5, 6, 7, 9}
NhcCall(elide_checksum, source, destination) ==
    [op |-> "new", elide_checksum |-> elide_checksum, source |-> source,
     destination |-> destination]

InitNhcNew ==
    /\ build \in Builds
    /\ pc = "start"
    /\ bytes = <<>>
    /\ tail = <<0>>
    /\ layer = "nhc"
    /\ ret = NoRet
    /\ acc = NoAcc
    /\ msg = NhcCall(FALSE, 0, 0)
    /\ hist = NoOps
    /\ src6 = NoAddr
    /\ dst6 = NoAddr
    /\ ctxt = NoCtxt
    /\ packet = NoPacket

\* UdpPacket::new(buffer, elide_checksum, source, destination)
NhcNew ==
    /\ pc = "start"
    /\ \E len \in NhcNewLens, fill \in Fills, elide_checksum \in BOOLEAN,
          source \in NhcNewPorts, destination \in NhcNewPorts :
          /\ bytes' = Rep(len, fill)
          /\ msg' = NhcCall(elide_checksum, source, destination)
          /\ packet' = nhc_new(bytes', elide_checksum, source, destination)
    /\ pc' = IF packet'.status = "panic" THEN "panicked" ELSE "built"
    /\ UNCHANGED <<build, tail, layer, ret, acc, hist, src6, dst6, ctxt>>

\* UdpPacket::parse(packet.bytes())
NhcReparse ==
    /\ pc = "built"
    /\ ret' = nhc_parse(packet.buffer)
    /\ pc' = "parsed"
    /\ UNCHANGED <<build, bytes, tail, layer, acc, msg, hist, src6, dst6, ctxt, packet>>

NextNhcNew ==
    \/ NhcNew
    \/ NhcReparse

SpecNhcNew == InitNhcNew /\ [][NextNhcNew]_vars

\* C24: for every source port, destination port and checksum-elision flag,
\* the NHC UDP packet built by new reports get_source() and
\* get_destination() equal to the given ports, and parsing its bytes again
\* yields a view with the same ports and the same payload offset.
C24_NhcNewRoundTripsPorts ==
    /\ (layer = "nhc" /\ pc \in {"built", "parsed"}) =>
          /\ nhc_get_source(packet.buffer) = msg.source
          /\ nhc_get_destination(packet.buffer) = msg.destination
          /\ get_c(packet.buffer) = msg.elide_checksum
    /\ (layer = "nhc" /\ pc = "parsed") =>
          /\ ret.status = "ok"
          /\ ret.payload = packet.payload
          /\ nhc_get_source(ret.buffer) = msg.source
          /\ nhc_get_destination(ret.buffer) = msg.destination

\* a packet whose source port alone has the 0xf0 prefix, with its checksum
\* kept, has been built over a buffer of ones and parsed again
C24_SourcePrefixElidedParsedAgain ==
    /\ layer = "nhc"
    /\ pc = "parsed"
    /\ msg.source = 61631
    /\ msg.destination = 4660
    /\ ~msg.elide_checksum
    /\ bytes = Rep(9, 255)
    /\ ret.status = "ok"
    /\ ret.payload = 6


(***************************************************************************)
(* The coap client (src/tools/src/bin/coap.rs): the transmission loop      *)
(***************************************************************************)
\* samples of Uniform::new(1.0, ACK_RANDOM_FACTOR) are counted in units of
\* 1 / SampleUnit
SampleUnit == 10000
ACK_RANDOM_FACTOR == 15000
ACK_TIMEOUT == 2000
MAX_RETRANSMIT == 4

\* `(between.sample(&mut rng) * ACK_TIMEOUT as f64) as u64`, in milliseconds
initial_timeout(sample) == (sample * ACK_TIMEOUT) \div SampleUnit

\* the loop keeping the same timeout after a wait that timed out
kept_timeout(timeout) == timeout

\* `timeout *= 2`
doubled_timeout(timeout) == timeout * 2

\* what client.recv can return: a datagram, or an error.  A wait that
\* elapses is reported with the kind TimedOut or the kind WouldBlock,
\* depending on the platform.
Datagrams == {"ack", "unrelated", "unparsable"}
ElapsedKinds == {"TimedOut", "WouldBlock"}
OtherErrorKinds == {"ConnectionRefused"}

Samples == {10000, 10004, 11111, 12500, 14999}

NoClient ==
    [timeout |-> 0, t0 |-> 0, sent |-> 0, waits |-> <<>>, elapsed |-> 0, last |-> "none",
     exit |-> "running"]

InitClient ==
    /\ build \in Builds
    /\ pc = "start"
    /\ bytes = <<>>
    /\ tail = <<0>>
    /\ layer = "client"
    /\ ret = NoRet
    /\ acc = NoAcc
    /\ msg = NoClient
    /\ hist = NoOps
    /\ src6 = NoAddr
    /\ dst6 = NoAddr
    /\ ctxt = NoCtxt
    /\ packet = NoPacket

ClientStep(to, m) ==
    /\ pc' = to
    /\ msg' = m
    /\ UNCHANGED <<build, bytes, tail, layer, ret, acc, hist, src6, dst6, ctxt, packet>>

ClientExit(last, exit) == ClientStep("exit", [msg EXCEPT !.last = last, !.exit = exit])

\* main up to the loop: the request is built and the first timeout is drawn
ClientStart ==
    /\ pc = "start"
    /\ layer = "client"
    /\ \E sample \in Samples :
          /\ SampleUnit <= sample
          /\ sample < ACK_RANDOM_FACTOR
          /\ ClientStep("loop", [msg EXCEPT !.timeout = initial_timeout(sample),
                                            !.t0 = initial_timeout(sample)])

\* an iteration of `for _ in 0..MAX_RETRANSMIT` up to the call of recv:
\* client.send, then client.set_read_timeout(Some(timeout))
ClientSend ==
    /\ pc = "loop"
    /\ msg.sent < MAX_RETRANSMIT
    /\ ClientStep("recv", [msg EXCEPT !.sent = @ + 1, !.waits = Append(@, msg.timeout)])

\* recv returns Err(e) with e.kind() == TimedOut: `timeout *= 2; continue`
ClientTimedOut ==
    /\ pc = "recv"
    /\ ClientStep("loop", [msg EXCEPT !.timeout = doubled_timeout(@), !.elapsed = @ + 1,
                                      !.last = "TimedOut"])

\* recv returns any other error: `return Err(e.into())`
ClientRecvError ==
    /\ pc = "recv"
    /\ \E kind \in (ElapsedKinds \ {"TimedOut"}) \cup OtherErrorKinds :
          ClientStep("exit", [msg EXCEPT !.last = kind, !.exit = "err",
                                         !.elapsed = IF kind \in ElapsedKinds THEN @ + 1 ELSE @])

\* recv returns a datagram: Ok(()) for the matching acknowledgement, bail!
\* for anything else
ClientReceived ==
    /\ pc = "recv"
    /\ \E datagram \in Datagrams : ClientExit(datagram, IF datagram = "ack" THEN "ok" ELSE "err")

\* the loop is over: bail!("timed out")
ClientGiveUp ==
    /\ pc = "loop"
    /\ msg.sent >= MAX_RETRANSMIT
    /\ ClientExit("timed out", "err")

NextClient ==
    \/ ClientStart
    \/ ClientSend
    \/ ClientTimedOut
    \/ ClientRecvError
    \/ ClientReceived
    \/ ClientGiveUp

SpecClient == InitClient /\ [][NextClient]_vars

\* send, set_read_timeout and recv return (recv after at most the read
\* timeout), so the client keeps taking steps until it exits
SpecClientFair == SpecClient /\ WF_vars(NextClient)

\* the waits so far are T0, 2 T0, 4 T0, ... with 2000 <= T0 < 3000
WaitsDouble ==
    /\ Len(msg.waits) = msg.sent
    /\ msg.sent <= MAX_RETRANSMIT
    /\ msg.sent > 0 => (msg.waits[1] >= ACK_TIMEOUT /\ msg.waits[1] < 3000)
    /\ \A k \in 1..Len(msg.waits) : msg.waits[k] = msg.waits[1] * Pow2(k - 1)

\* a step that transmits again follows a wait that timed out
RetransmitsAfterTimeout ==
    (msg'.sent > msg.sent /\ msg.sent > 0) => (msg.last = "TimedOut" /\ msg.elapsed = msg.sent)

\* C25: in every run of the coap client the request is transmitted at most
\* MAX_RETRANSMIT = 4 times; the first wait uses a timeout T0 with
\* 2000 ms <= T0 < 3000 ms and the wait after the k-th transmission uses
\* T0 * 2^(k-1); a retransmission happens only after the preceding wait
\* timed out; and after the fourth timeout the run terminates with a
\* failure.
C25_ClientRetransmitsWithBackoff ==
    /\ [](layer = "client" => WaitsDouble)
    /\ [][layer = "client" => RetransmitsAfterTimeout]_vars
    /\ (layer = "client" /\ msg.elapsed = MAX_RETRANSMIT) ~> (pc = "exit" /\ msg.exit = "err")

\* the run that timed out four times and gave up
C25_GaveUpAfterFourTimeouts ==
    /\ layer = "client"
    /\ pc = "exit"
    /\ msg.exit = "err"
    /\ msg.last = "timed out"
    /\ msg.sent = MAX_RETRANSMIT
    /\ msg.waits = <<2999, 5998, 11996, 23992>>


(***************************************************************************)
(* Scenario: options are added to and cleared from a CoAP message that is  *)
(* being built (the test `options` of coap.rs)                             *)
(***************************************************************************)
MaxClearOps == 3
ClearBufferLens == {12, 40}
ClearTokenLengths == {0, 2}
ClearNumbers == {1, 11, 300}
ClearValues == {<<>>, <<255>>, Rep(LongValueLen, 7)}

InitClear ==
    /\ build \in Builds
    /\ pc = "start"
    /\ bytes \in {Rep(n, fill) : n \in ClearBufferLens, fill \in Fills}
    /\ tail = <<0>>
    /\ layer = "options"
    /\ ret = NoRet
    /\ acc = NoAcc
    /\ msg = NoMsg
    /\ hist = [options |-> <<>>, payload |-> <<>>, op |-> "none", n |-> 0, cleared |-> 0]
    /\ src6 = NoAddr
    /\ dst6 = NoAddr
    /\ ctxt = NoCtxt
    /\ packet = NoPacket

ClearStep(m, h) ==
    /\ msg' = m
    /\ pc' = after(m, "unset")
    /\ hist' = h
    /\ UNCHANGED <<build, bytes, tail, layer, ret, acc, src6, dst6, ctxt, packet>>

\* coap::Message::new(buffer, token_length)
ClearNew ==
    /\ pc = "start"
    /\ layer = "options"
    /\ \E token_length \in ClearTokenLengths :
          ClearStep(coap_new(bytes, token_length), [hist EXCEPT !.op = "new"])

\* m.add_option(number, value)
ClearAddOption ==
    /\ pc = "unset"
    /\ layer = "options"
    /\ hist.n < MaxClearOps
    /\ \E number \in ClearNumbers, value \in ClearValues :
          ClearStep(coap_add_option(msg, number, value),
                    [hist EXCEPT !.options = Append(@, <<number, value>>), !.op = "add_option",
                                 !.n = @ + 1])

\* m.clear_options()
ClearOptions ==
    /\ pc = "unset"
    /\ layer = "options"
    /\ hist.n < MaxClearOps
    /\ ClearStep(coap_clear_options(msg),
                 [hist EXCEPT !.options = <<>>, !.op = "clear_options", !.n = @ + 1,
                              !.cleared = @ + 1])

NextClear ==
    \/ ClearNew
    \/ ClearAddOption
    \/ ClearOptions

SpecClear == InitClear /\ [][NextClear]_vars

RECURSIVE EncodedSizes(_, _)
\* the encoded sizes of the options opts that follow an option numbered prev
EncodedSizes(opts, prev) ==
    IF opts = <<>> THEN 0
    ELSE LET number == opts[1][1]
             len == Len(opts[1][2])
         IN  1 + ExtendedBytes(number - prev) + ExtendedBytes(len) + len
             + EncodedSizes(Tail(opts), number)

\* C26: after any sequence of successful add_option and clear_options calls on
\* a CoAP message in the PayloadUnset state, marker equals 4 + token length +
\* the encoded sizes of the options added since the last clear_options and
\* never exceeds the buffer length, highest_option equals the number of the
\* last such option (0 if none), and options() yields exactly those options
\* in order, also when they were added after a clear_options over bytes left
\* by earlier options.
C26_MarkerNumberAndOptionsFollowTheCalls ==
    (layer = "options" /\ pc = "unset") =>
        /\ msg.marker = COAP_HEADER_SIZE + get_token_length(msg.buffer)
                        + EncodedSizes(hist.options, 0)
        /\ msg.marker <= Len(msg.buffer)
        /\ msg.number = IF hist.options = <<>> THEN 0
                        ELSE hist.options[Len(hist.options)][1]
        /\ coap_options(msg, build) = AccOk(hist.options)
        /\ coap_as_bytes(msg) = To(msg.buffer, msg.marker)

\* a smaller-numbered, shorter option was added after clear_options, over
\* the bytes of an earlier long option
C26_AddedOverClearedOption ==
    /\ layer = "options"
    /\ pc = "unset"
    /\ hist.cleared = 1
    /\ hist.op = "add_option"
    /\ hist.options = <<<<1, <<255>>>>>>
    /\ msg.buffer[COAP_HEADER_SIZE + get_token_length(msg.buffer) + 3] = 7
    /\ bytes = Rep(40, 255)


(***************************************************************************)
(* Neighbor Discovery: the extents of the options                          *)
(***************************************************************************)
\* C27: for every ICMPv6 message accepted by the downcast to
\* NeighborSolicitation or NeighborAdvertisement, the option validator and
\* the option iterators compute the same extent (8 * Length bytes) for every
\* option, so get_source_ll, get_target_ll and target_ll_mut read and write
\* only bytes inside the message and never panic.
C27_LlGettersStayInsideTheMessage ==
    (layer = "icmpv6" /\ pc = "read") =>
        /\ packet.status \in {"get_source_ll", "get_target_ll", "target_ll_mut"}
        /\ packet.some => (ND_HEADER_SIZE + 2 <= packet.from /\ packet.from <= packet.to
                           /\ packet.to <= Len(ret.buffer))
        /\ OptionsWellFormed(From(ret.buffer, ND_HEADER_SIZE))


(***************************************************************************)
(* Neighbor Discovery: the Neighbor Advertisement constructor              *)
(***************************************************************************)
\* What a constructor returns: the message view, and whether an unchecked
\* write landed outside the view it was made through
Constructed(status, buffer, outside) == [status |-> status, buffer |-> buffer, outside |-> outside]
NoConstructed == Constructed("none", <<>>, FALSE)
ConstructPanic == Constructed("panic", <<>>, FALSE)

\* the part of the bytes s written at 0-based index at that lands inside buffer
WriteInside(buffer, at, s) ==
    [i \in 1..Len(buffer) |-> IF i > at /\ i <= at + Len(s) THEN s[i - at] ELSE buffer[i]]

\* icmpv6::Message::neighbor_advertisement.  size is a u8; rm and gum are
\* unchecked in a release build, header_mut_ only has a debug_assert.
neighbor_advertisement(buffer, target_ll_opt_size, bld) ==
    LET product == target_ll_opt_size * 8
        sum == 24 + (product % 256)
        size == sum % 256
    IN  IF bld = "debug" /\ (product > U8_MAX \/ sum > U8_MAX) THEN ConstructPanic
        ELSE IF Len(buffer) < size THEN ConstructPanic
        ELSE IF bld = "debug" /\ Len(buffer) < 8 THEN ConstructPanic
        ELSE
            LET b1 == slice_truncate_u8(WriteInside(buffer, 4, <<0, 0, 0, 0>>), size)
                o1 == Len(buffer) < 8
                opt == target_ll_opt_size # 0
                b2 == IF opt
                      THEN WriteInside(b1, 24, <<TargetLinkLayerAddress, target_ll_opt_size>>)
                      ELSE b1
                o2 == opt /\ Len(b1) < 26
                b3 == WriteInside(b2, 0, <<NeighborAdvertisement, 0>>)
                o3 == Len(b2) < 2
            IN  IF bld = "debug" /\ (o2 \/ Len(b2) < 4) THEN ConstructPanic
                ELSE Constructed("ok", b3, o1 \/ o2 \/ o3)

(***************************************************************************)
(* Scenario: a Neighbor Advertisement is constructed over a buffer         *)
(***************************************************************************)
NaBufferLens == {0, 4, 23, 24, 31, 32, 248, 255, 256, 300}
NaOptionSizes == {0, 1, 2, 28, 29, 31, 32, 33, 255}
NaCall(len, fill, n) == [op |-> "neighbor_advertisement", len |-> len, fill |-> fill, n |-> n]

InitNa ==
    /\ build \in Builds
    /\ pc = "start"
    /\ bytes = <<>>
    /\ tail = <<0>>
    /\ layer = "na"
    /\ ret = NoRet
    /\ acc = NoAcc
    /\ msg = NaCall(0, 0, 0)
    /\ hist = NoOps
    /\ src6 = NoAddr
    /\ dst6 = NoAddr
    /\ ctxt = NoCtxt
    /\ packet = NoConstructed

\* Message::neighbor_advertisement(buffer, target_ll_opt_size)
NaNew ==
    /\ pc = "start"
    /\ layer = "na"
    /\ \E len \in NaBufferLens, fill \in Fills, n \in NaOptionSizes :
          /\ msg' = NaCall(len, fill, n)
          /\ packet' = neighbor_advertisement(Rep(len, fill), n, build)
    /\ pc' = IF packet'.status = "panic" THEN "panicked" ELSE "built"
    /\ UNCHANGED <<build, bytes, tail, layer, ret, acc, hist, src6, dst6, ctxt>>

\* na.target_ll_mut() on the constructed message
NaTargetLlMut ==
    /\ pc = "built"
    /\ layer = "na"
    /\ ret' = [NoRet EXCEPT !.status = IF Len(packet.buffer) < ND_HEADER_SIZE
                                        THEN AccBad(build).status
                                        ELSE nd_target_ll_mut(packet.buffer, build).status]
    /\ pc' = "read"
    /\ UNCHANGED <<build, bytes, tail, layer, acc, msg, hist, src6, dst6, ctxt, packet>>

NextNa ==
    \/ NaNew
    \/ NaTargetLlMut

SpecNa == InitNa /\ [][NextNa]_vars

\* C28: for every N in 0..=255, neighbor_advertisement(buffer, N) either
\* panics because the buffer is shorter than 24 + 8*N bytes, or returns a
\* message of exactly 24 + 8*N bytes with Type = 136, Code = 0, the reserved
\* bytes zeroed and, when N > 0, an option header (type 2, length N) at
\* offset 24 that lies inside the message; it never writes outside the buffer.
C28_NeighborAdvertisementHasItsSize ==
    (layer = "na" /\ pc \in {"built", "panicked"}) =>
        IF msg.len < 24 + 8 * msg.n
        THEN packet.status = "panic"
        ELSE /\ packet.status = "ok"
             /\ ~packet.outside
             /\ Len(packet.buffer) = 24 + 8 * msg.n
             /\ To(packet.buffer, 2) = <<NeighborAdvertisement, 0>>
             /\ Range(packet.buffer, 4, 8) = <<0, 0, 0, 0>>
             /\ msg.n > 0 => Range(packet.buffer, 24, 26) = <<TargetLinkLayerAddress, msg.n>>


(***************************************************************************)
(* set_payload on the views that cache lengths in a u8                     *)
(***************************************************************************)
ECHO_REPLY_PAYLOAD == 8

\* icmpv6::Message::echo_reply
icmpv6_echo_reply(buffer) ==
    IF Len(buffer) < ECHO_REPLY_PAYLOAD THEN [NoPacket EXCEPT !.status = "panic"]
    ELSE [status |-> "ok", buffer |-> Write(buffer, 0, <<ICMPV6_ECHO_REPLY, 0>>),
          payload |-> ECHO_REPLY_PAYLOAD]

\* iphc::Packet::set_payload: `self.payload_mut()[..plen]` panics when data
\* does not fit, then `self.buffer.truncate(self.payload + plen as u8)`
iphc_set_payload(p, data, bld) == set_payload_u8(p, data, bld)

\* nhc::UdpPacket::set_payload
nhc_set_payload(p, data, bld) == set_payload_u8(p, data, bld)

\* icmpv6::Message<B, EchoReply>::set_payload:
\* `self.buffer.truncate(dlen as u8 + SEQUENCE.end as u8)`
echo_reply_set_payload(p, data, bld) == set_payload_u8(p, data, bld)

(***************************************************************************)
(* Scenario: a view of one of the four layers is constructed over a buffer *)
(* and its payload is set.                                                 *)
(***************************************************************************)
U8Layers == {"ieee802154", "iphc", "nhc", "echo_reply"}
U8BufferLens == {16, 255, 256, 300}
U8DataLens == {0, 1, 10, 240, 247, 248, 256, 290}
DataFill == 170

\* the constructor of the layer, with arguments that leave a header shorter
\* than the shortest buffer
U8New(l, buffer) ==
    CASE l = "ieee802154" -> ieee802154_data(buffer, 48879, ShortLl, ShortLl)
      [] l = "iphc" -> iphc_new(buffer, <<UDP_NEXT_HEADER>>, 64, LinkLocal1, LinkLocal1, NoCtxt)
      [] l = "nhc" -> nhc_new(buffer, FALSE, 4660, 4660)
      [] OTHER -> icmpv6_echo_reply(buffer)

U8SetPayload(l, p, data, bld) ==
    CASE l = "ieee802154" -> ieee802154_set_payload(p, data, bld)
      [] l = "iphc" -> iphc_set_payload(p, data, bld)
      [] l = "nhc" -> nhc_set_payload(p, data, bld)
      [] OTHER -> echo_reply_set_payload(p, data, bld)

InitU8 ==
    /\ build \in Builds
    /\ pc = "start"
    /\ bytes = <<>>
    /\ tail = <<0>>
    /\ layer \in U8Layers
    /\ ret = NoPacket
    /\ acc = NoAcc
    /\ msg = FieldCall("none", 0)
    /\ hist = NoOps
    /\ src6 = NoAddr
    /\ dst6 = NoAddr
    /\ ctxt = NoCtxt
    /\ packet = NoPacket

\* the view is constructed over a buffer
U8Construct ==
    /\ pc = "start"
    /\ layer \in U8Layers
    /\ \E len \in U8BufferLens, fill \in Fills :
          /\ packet' = U8New(layer, Rep(len, fill))
          /\ msg' = FieldCall("new", len)
    /\ pc' = IF packet'.status = "panic" THEN "panicked" ELSE "view"
    /\ UNCHANGED <<build, bytes, tail, layer, ret, acc, hist, src6, dst6, ctxt>>

\* view.set_payload(data); ret keeps the view as it was before the call
U8Set ==
    /\ pc = "view"
    /\ layer \in U8Layers
    /\ \E dlen \in U8DataLens :
          /\ packet' = U8SetPayload(layer, packet, Rep(dlen, DataFill), build)
          /\ msg' = FieldCall("set_payload", dlen)
    /\ ret' = packet
    /\ pc' = IF packet'.status = "panic" THEN "panicked" ELSE "set"
    /\ UNCHANGED <<build, bytes, tail, layer, acc, hist, src6, dst6, ctxt>>

NextU8 ==
    \/ U8Construct
    \/ U8Set

SpecU8 == InitU8 /\ [][NextU8]_vars

\* C29: on every layer that tracks lengths in 8 bits (802.15.4 frame, IPHC
\* packet, NHC UDP packet, ICMPv6 EchoReply), set_payload(data) either panics
\* because data does not fit in the payload region or leaves the view exactly
\* header length + data.len() bytes long with payload() equal to data, for
\* every data length and every initial buffer length, also when header
\* length + data.len() exceeds 255.
C29_SetPayloadPanicsOrSizesTheView ==
    (layer \in U8Layers /\ msg.op = "set_payload") =>
        IF msg.arg > Len(ret.buffer) - ret.payload
        THEN packet.status = "panic"
        ELSE /\ packet.status = "ok"
             /\ Len(packet.buffer) = ret.payload + msg.arg
             /\ From(packet.buffer, packet.payload) = Rep(msg.arg, DataFill)
             /\ To(packet.buffer, packet.payload) = To(ret.buffer, ret.payload)

\* the same statement for data that ends within the first 255 bytes
U8SetPayloadHoldsUpTo255 ==
    (layer \in U8Layers /\ msg.op = "set_payload" /\ ret.payload + msg.arg <= U8_MAX) =>
        C29_SetPayloadPanicsOrSizesTheView

====
